---- MODULE Spec2Model ----
(***************************************************************************)
(* A model of the useEpubReader hook (src/src/hooks/use-epub-reader.ts):   *)
(* the copy quota, the session start (allowance validation, total          *)
(* character count), the annotation collections with their overlays and    *)
(* their load effects, searchBook with the overlays of its results and of  *)
(* the selected position, the table of contents and the clicks.            *)
(*                                                                         *)
(* A copied text is modelled by its length, a position (CFI) by a name, a  *)
(* localStorage item by the characters JSON.stringify produced, and the    *)
(* text of a chapter and a query by the sequence of their characters.      *)
(*                                                                         *)
(* What the model takes from outside the hook's source:                    *)
(*  - the three quota atoms (atoms/copy-protection) are shared by every    *)
(*    mount of the hook and start at 0, 0 and 10;                          *)
(*  - a callback called by the host sees the state of the last render;     *)
(*  - React runs the effects of a mount in the order of the source, and an *)
(*    effect that throws keeps the later ones from running;                *)
(*  - React runs the updater function of a state update when the component *)
(*    renders, in the order of the dispatches, but for the first updater   *)
(*    dispatched while no update is pending, which it runs at once; the    *)
(*    component renders before any event other than a call made back to    *)
(*    back with the last one;                                              *)
(*  - rendition.annotations keeps one overlay per type and cfi, and        *)
(*    remove(cfi, type) removes that one;                                  *)
(*  - a position selected by the user and a position of the search that   *)
(*    are the same range have the same cfi;                                *)
(*  - ePub(url) or renderTo may throw inside the try of the load effect,   *)
(*    and book.ready may reject, which no handler catches;                 *)
(*  - Range.setEnd throws for an offset beyond the length of its node;     *)
(*  - the page estimate of a table entry is taken in exact arithmetic;     *)
(*  - a click is given by where its point is for the range of each         *)
(*    position: inside a rectangle, outside, or getRange throws;           *)
(*  - book.destroy() at the unmount ends the continuation of book.ready;   *)
(*    a clipboard write that is pending at the unmount still settles, and  *)
(*    a search in flight at the unmount publishes nothing.                 *)
(***************************************************************************)
EXTENDS Integers, Sequences, FiniteSets, TLC

VARIABLES
    localStorage,            \* key -> item (window.localStorage)
    totalBookChars,          \* totalBookCharsAtom
    copiedChars,             \* copiedCharsAtom
    copyAllowance,           \* copyAllowancePercentageAtom
    pc,                      \* where the mounted hook is in its life
    url,                     \* prop: the document of the mounted hook
    isCopyProtected,         \* prop
    copyAllowancePercentage, \* prop
    bookRef,                 \* bookRef.current
    isLoading,               \* isLoading state
    savedTotalChars,         \* the local of the init effect (line 728)
    countTask,               \* per spine item: the task of the total count
    pending,                 \* copyText calls awaiting navigator.clipboard
    ret,                     \* what the last returned copyText call gave its caller
    clipboard,               \* the text on the system clipboard (its length)
    totalCounts,             \* per document: completed total-character counts
    sessionLoads,            \* item.load calls of the total count, this mount
    nSessions,               \* number of mounts so far
    highlights,              \* highlights state
    bookmarks,               \* bookmarks state
    notes,                   \* notes state
    location,                \* location state (current CFI)
    bookmarkCalls,           \* addBookmark calls awaiting getChapterFromCfi
    clock,                   \* the clock behind new Date()
    updateQueue,             \* state updates of the collections awaiting the render
    overlays,                \* rendition.annotations: the overlays, by type and cfi
    bookmarksCleared,        \* history: removeAllBookmarks was called and
                             \* addBookmark has not been called since
    spine,                   \* spine state: the document whose spine it is
    searchResults,           \* searchResults state
    currentSearchResultIndex,\* currentSearchResultIndex state
    isSearching,             \* isSearching state
    searchCalls,             \* searchBook calls awaiting their chapter tasks
    lastSearch,              \* history: the last searchBook call, whether it found
                             \* the book and the spine, the item.load calls it made
    lastPublished,           \* history: the searchBook call that published last,
                             \* its query and how each of its chapter tasks ended
    searchOverlays,          \* rendition.annotations: the "highlight" overlays at
                             \* positions of the text, cfi -> the style it was added with
    previousSearchHighlights,\* previousSearchHighlights.current
    selectedCfi,             \* selectedCfi state (<<>>: "")
    previousSelectedCfi,     \* previousSelectedCfi state (<<>>: null)
    navigation,              \* book.navigation.toc of the book that is ready
    locations,               \* book.locations of the book that is ready
    toc,                     \* toc state
    editingNote,             \* editingNote state (<<>>: null, else <<note>>)
    clickedHighlight,        \* clickedHighlight state (<<>>: null, else <<highlight>>)
    lastClick,               \* history: the clicks of this mount so far and, of the
                             \* last one, where its point is for each position
    error,                   \* error state (FALSE: null)
    goToRejected             \* history: the parity of the number of goToSearchResult
                             \* calls of this mount with an index out of range

quotaVars == <<totalBookChars, copiedChars, copyAllowance>>
propVars == <<url, isCopyProtected, copyAllowancePercentage>>
sessionVars == <<pc, bookRef, isLoading, savedTotalChars, countTask, totalCounts,
                 sessionLoads, nSessions>>
copyVars == <<pending, ret, clipboard>>
annotVars == <<highlights, bookmarks, notes, location, bookmarkCalls, clock,
               updateQueue, overlays, bookmarksCleared>>
storeVars == <<highlights, bookmarks, notes, location, bookmarkCalls, clock,
               updateQueue, bookmarksCleared>>
searchVars == <<spine, searchResults, currentSearchResultIndex, isSearching, searchCalls,
                lastSearch, lastPublished>>
selectVars == <<searchOverlays, previousSearchHighlights, selectedCfi, previousSelectedCfi>>
tocVars == <<navigation, locations, toc>>
clickVars == <<editingNote, clickedHighlight, lastClick>>
viewVars == <<tocVars, clickVars, error, goToRejected>>
vars == <<localStorage, quotaVars, propVars, sessionVars, copyVars, annotVars, searchVars,
          selectVars, viewVars>>

----------------------------------------------------------------------------
(* Bounds of the model *)

MaxSessions == 2
MaxCalls == 3
MaxPending == 2
MaxAnnotations == 2
MaxBatch == 3
MaxSearches == 2
MaxTextLen == 3
MaxTocItems == 4
MaxSubitems == 2
MaxClicks == 2

----------------------------------------------------------------------------
(* The documents and the inputs *)

Urls == {"a.epub", "b.epub"}

\* The spine of each document: the length of each chapter's text.
spineItems(u) == IF u = "a.epub" THEN <<100, 300>> ELSE <<40>>

\* Values of the copyAllowancePercentage prop.
Percentages == {-1, 0, 10, 100, 101}

\* Lengths of the texts handed to copyText.
TextLengths == {0, 10, 15, 30}

\* Positions in the document (CFIs), and the text selected at each.
Cfis == {"cfi1", "cfi2"}
selectedText(cfi) == IF cfi = "cfi1" THEN "lorem" ELSE "ipsum"

\* The arguments of the annotation calls.
HighlightTypes == {"highlight", "underline"}
Colors == {"yellow", "red"}
NoteTexts == {"n1", "n2"}

\* The characters of the texts of chapters and of queries: a text is the
\* sequence of its characters.
Alphabet == {"a", "A", "b"}
TheCatsCategory ==
    <<"t", "h", "e", " ", "c", "a", "t", "s", " ",
      "c", "a", "t", "e", "g", "o", "r", "y">>
Texts == (UNION {[1..n -> Alphabet] : n \in 0..MaxTextLen}) \cup {TheCatsCategory}

\* The text nodes of a chapter document whose text is t, cut at a and at b.
TextNodes(t, a, b) ==
    LET lo == IF a < b THEN a ELSE b
        hi == IF a < b THEN b ELSE a
        NonEmpty(n) == n # <<>>
    IN  SelectSeq(<<SubSeq(t, 1, lo), SubSeq(t, lo + 1, hi), SubSeq(t, hi + 1, Len(t))>>,
                  NonEmpty)

\* The chapter documents (item.document after item.load), by their text nodes.
Documents ==
    UNION {{TextNodes(t, a, b) : a \in 0..Len(t), b \in 0..Len(t)} : t \in Texts}

\* The queries searchBook is called with.
Queries ==
    {<<>>, <<" ">>, <<" ", " ">>, <<"a">>, <<"a", "a">>, <<"A", "b">>,
     <<" ", "a", "a", " ">>, <<"c", "a", "t">>}

RECURSIVE SumSeq(_)
SumSeq(s) == IF s = <<>> THEN 0 ELSE Head(s) + SumSeq(Tail(s))

----------------------------------------------------------------------------
(* localStorage and JSON *)

NULL == [present |-> FALSE, chars |-> <<>>]
Item(cs) == [present |-> TRUE, chars |-> cs]

\* if (saved): an item that is there and is not the empty string.
Truthy(item) == item.present /\ item.chars # <<>>

RECURSIVE Digits(_)
Digits(n) == IF n < 10 THEN <<n>> ELSE Append(Digits(n \div 10), n % 10)

\* JSON.stringify of a non-negative integer: its decimal digits.
JSONStringifyNumber(n) == Item(Digits(n))

RECURSIVE DigitsValue(_)
DigitsValue(cs) ==
    IF cs = <<>> THEN 0
    ELSE 10 * DigitsValue(SubSeq(cs, 1, Len(cs) - 1)) + cs[Len(cs)]

\* JSON.parse of an item JSONStringifyNumber wrote.
JSONParseNumber(item) == DigitsValue(item.chars)

\* JSON.stringify of an array of objects whose fields are all defined, and
\* JSON.parse of it: the item holds the JSON text, a text that is never
\* empty ("[]" for the empty array) and that stands for the array's entries
\* in their order, each with its fields.
JSONStringifyArray(a) == Item(<<a>>)
JSONParseArray(item) == item.chars[1]

\* A JSON text that was cut short, and whether JSON.parse takes a text or
\* throws a SyntaxError: the text of an array cut before its end is no JSON.
CutShort(item) == Item(item.chars \o <<"cut">>)
JSONParses(item) == Len(item.chars) = 1

STORAGE_KEY_LOC(u) == <<"epub-location", u>>
STORAGE_KEY_HIGHLIGHTS(u) == <<"epub-highlights", u>>
STORAGE_KEY_BOOKMARK(u) == <<"epub-bookmarks", u>>
STORAGE_KEY_NOTES(u) == <<"epub-notes", u>>
\* The key of the total without the url in it.
STORAGE_KEY_TOTAL_CHARS_Shared(u) == <<"epub-total-chars", "a.epub">>

STORAGE_KEY_TOTAL_CHARS(u) == <<"epub-total-chars", u>>
STORAGE_KEY_COPIED_CHARS(u) == <<"epub-copied-chars", u>>
\* `epub-toc`: the same key for every document (line 227)
STORAGE_KEY_TOC(u) == <<"epub-toc">>

Keys ==
    UNION {{STORAGE_KEY_LOC(u),
            STORAGE_KEY_HIGHLIGHTS(u), STORAGE_KEY_BOOKMARK(u), STORAGE_KEY_NOTES(u),
            STORAGE_KEY_TOTAL_CHARS(u), STORAGE_KEY_COPIED_CHARS(u),
            STORAGE_KEY_TOC(u)} : u \in Urls}

setItem(store, key, item) == [store EXCEPT ![key] = item]
removeItem(store, key) == [store EXCEPT ![key] = NULL]

----------------------------------------------------------------------------
(* The copy quota: pure parts of copyText and of the effects *)

\* The validation with no upper limit.
ValidAllowance_NoUpper(pct) == ~(pct < 0)

\* if (copyAllowancePercentage < 0 || copyAllowancePercentage > 100) throw
ValidAllowance(pct) == ~(pct < 0 \/ pct > 100)

\* The quota check with >= for >: a copy that exactly fills the allowance is denied.
QuotaExceeded_AtLimit(copied, len, total, allowance) ==
    (copied + len) * 100 >= total * allowance

\* The quota check on the text alone, what was copied before forgotten.
QuotaExceeded_IgnoresCopied(copied, len, total, allowance) ==
    len * 100 > total * allowance

\* The quota check on what was copied before, the new text forgotten.
QuotaExceeded_IgnoresLength(copied, len, total, allowance) ==
    copied * 100 > total * allowance

\* copiedChars + text.length > (totalBookChars * copyAllowance) / 100, the
\* division being exact: both sides are taken times 100.
QuotaExceeded(copied, len, total, allowance) ==
    (copied + len) * 100 > total * allowance

\* The new count set to the length of the text instead of added to.
NewCopiedChars_Overwrite(prev, len) == len

\* prev + text.length
NewCopiedChars(prev, len) == prev + len

\* The new count not written to localStorage.
PersistCopiedChars_Skipped(store, u, newCopiedChars) == store

\* localStorage.setItem(STORAGE_KEY_COPIED_CHARS, JSON.stringify(newCopiedChars))
PersistCopiedChars(store, u, newCopiedChars) ==
    setItem(store, STORAGE_KEY_COPIED_CHARS(u), JSONStringifyNumber(newCopiedChars))

\* The unprotected branch rethrowing as the protected one does.
OutcomeOnReject_Rethrows(prot) == "rejected"
OutcomeOnReject_Swallows(prot) == "resolved"

\* What the caller gets when navigator.clipboard.writeText rejects.
OutcomeOnReject(prot) == IF prot THEN "rejected" ELSE "resolved"

\* allText.join("").length
ComputeTotalChars(u) == SumSeq(spineItems(u))

\* const saved = localStorage.getItem(KEY); if (saved) set(JSON.parse(saved))
LoadSaved(store, key, current) ==
    IF Truthy(store[key]) THEN JSONParseNumber(store[key]) ELSE current

\* The n-th copyText call to return, and how it returned.
Returned(outcome, c) ==
    [n |-> ret.n + 1, outcome |-> outcome, len |-> c.len, prot |-> c.prot, url |-> c.url]

\* pending is a bag (the order of the pending calls decides nothing), kept
\* as a sequence in the order of CallCode.
CallCode(c) == 4 * c.len + (IF c.prot THEN 2 ELSE 0) + (IF c.url = "a.epub" THEN 0 ELSE 1)

AddPending(s, c) ==
    LET k == Cardinality({i \in 1..Len(s) : CallCode(s[i]) <= CallCode(c)})
    IN  SubSeq(s, 1, k) \o <<c>> \o SubSeq(s, k + 1, Len(s))

RemoveAt(s, k) == SubSeq(s, 1, k - 1) \o SubSeq(s, k + 1, Len(s))

Mounted == pc \in {"loading", "counting", "ready", "aborted"}

\* The component has rendered all the state updates that were dispatched.
Rendered == updateQueue = <<>>

----------------------------------------------------------------------------
(* The annotation collections: pure parts of the callbacks and of the load *)
(* effects                                                                 *)

\* newHighlight of addHighlight, created at the time now.
NewHighlight(cfi, type, color, now) ==
    [cfi |-> cfi, text |-> selectedText(cfi), color |-> color, type |-> type,
     createdAt |-> now]

\* The chapter title and the page of a position (lib/epub-utils).
getChapterFromCfi(cfi) == IF cfi = "cfi1" THEN "Chapter 1" ELSE "Chapter 2"
getPageFromCfi(cfi) == IF cfi = "cfi1" THEN 1 ELSE 2

\* newBookmark of addBookmark for the location cfi, created at the time now.
NewBookmark(cfi, now) ==
    [cfi |-> cfi, createdAt |-> now, chapter |-> getChapterFromCfi(cfi),
     page |-> getPageFromCfi(cfi)]

\* newNote of addNote, created at the time now.
NewNote(cfi, note, now) ==
    [cfi |-> cfi, text |-> selectedText(cfi), note |-> note, createdAt |-> now]

\* prev.filter((x) => x.cfi !== cfi)
FilterOutCfi(prev, cfi) ==
    LET Keep(x) == x.cfi # cfi IN SelectSeq(prev, Keep)

\* prev.map((h) => h.cfi === cfi ? { ...h, color: newColor } : h)
MapColor(prev, cfi, newColor) ==
    [i \in DOMAIN prev |->
        IF prev[i].cfi = cfi THEN [prev[i] EXCEPT !.color = newColor] ELSE prev[i]]

\* prev.map((n) => n.cfi === cfi ? { ...n, note: newNote } : n)
MapNote(prev, cfi, newNote) ==
    [i \in DOMAIN prev |->
        IF prev[i].cfi = cfi THEN [prev[i] EXCEPT !.note = newNote] ELSE prev[i]]

\* The load effect of the highlights calls addHighlight({cfi, text, color,
\* createdAt}) for each parsed entry: the type is not handed over and
\* defaults to "highlight", createdAt is not read and is taken anew.  The
\* updaters append to the empty state of the new mount, each writing its
\* array to localStorage; this is the array the last of them wrote.
ReAddedHighlights(parsed, now) ==
    [i \in DOMAIN parsed |-> NewHighlight(parsed[i].cfi, "highlight", parsed[i].color, now)]

\* const saved = localStorage.getItem(KEY); if (saved) setX(JSON.parse(saved)),
\* a SyntaxError of JSON.parse being caught (highlights, bookmarks).
LoadSavedArray(store, key) ==
    IF Truthy(store[key]) /\ JSONParses(store[key]) THEN JSONParseArray(store[key]) ELSE <<>>

\* The load effect of the notes has no try around JSON.parse.
LoadThrows(store, u) ==
    Truthy(store[STORAGE_KEY_NOTES(u)]) /\ ~JSONParses(store[STORAGE_KEY_NOTES(u)])

\* What the addHighlight calls of the load effect have written when the
\* component has rendered (all the updaters have run), and when the mount
\* failed before it rendered again (React has run the first updater only,
\* at its dispatch).
ReAddedStore(store, u, parsed, now, rendered) ==
    IF parsed = <<>> THEN store
    ELSE setItem(store, STORAGE_KEY_HIGHLIGHTS(u),
                 JSONStringifyArray(IF rendered THEN ReAddedHighlights(parsed, now)
                                    ELSE <<ReAddedHighlights(parsed, now)[1]>>))

\* The overlays the load effects add: annotations.add("highlight", cfi, ...)
\* for each saved highlight (through addHighlight) and each saved note.
LoadedOverlays(hs, ns) ==
    {<<"highlight", hs[i].cfi>> : i \in DOMAIN hs} \cup {<<"highlight", ns[i].cfi>> : i \in DOMAIN ns}

----------------------------------------------------------------------------
(* searchBook: the pure parts.  Offsets count from 0, as in the source.    *)

\* String.prototype.toLowerCase over the alphabet of the model.
toLowerCase(s) ==
    [i \in DOMAIN s |-> CASE s[i] = "A" -> "a" [] s[i] = "B" -> "b" [] OTHER -> s[i]]

RECURSIVE trimStart(_)
trimStart(s) == IF s # <<>> /\ Head(s) = " " THEN trimStart(Tail(s)) ELSE s

RECURSIVE trimEnd(_)
trimEnd(s) ==
    IF s # <<>> /\ s[Len(s)] = " " THEN trimEnd(SubSeq(s, 1, Len(s) - 1)) ELSE s

\* String.prototype.trim
trim(s) == trimEnd(trimStart(s))

\* A query that is lower-cased and not trimmed.
TrimmedQuery_NotTrimmed(query) == toLowerCase(query)

\* const trimmedQuery = query.trim().toLowerCase()
TrimmedQuery(query) == toLowerCase(trim(query))

\* textNodes.map((n) => n.textContent || "").join("")
RECURSIVE join(_)
join(textNodes) ==
    IF textNodes = <<>> THEN <<>> ELSE Head(textNodes) \o join(Tail(textNodes))

\* const fullText = textNodes.map(...).join("").toLowerCase()
FullText(textNodes) == toLowerCase(join(textNodes))

\* text.indexOf(q, from) for a q that is not empty.
RECURSIVE indexOf(_, _, _)
indexOf(text, q, from) ==
    IF from + Len(q) > Len(text) THEN -1
    ELSE IF SubSeq(text, from + 1, from + Len(q)) = q THEN from
    ELSE indexOf(text, q, from + 1)

\* "Find the matching node and offset": the node index and the offset in
\* the node the walk ends at, started at nodeIndex with offset.
RECURSIVE NodeAt(_, _, _)
NodeAt(textNodes, nodeIndex, offset) ==
    IF nodeIndex < Len(textNodes) /\ ~(offset < Len(textNodes[nodeIndex + 1]))
    THEN NodeAt(textNodes, nodeIndex + 1, offset - Len(textNodes[nodeIndex + 1]))
    ELSE <<nodeIndex, offset>>

\* range.setStart(node, offset); range.setEnd(node, offset + length): the
\* DOM throws an IndexSizeError for an offset beyond the length of the node.
RangeThrows(node, offset, length) == offset > Len(node) \/ offset + length > Len(node)

\* The occurrence at pos gives a result: a node was found and the range of
\* the match in that node is valid.
GivesResult(textNodes, q, pos) ==
    LET at == NodeAt(textNodes, 0, pos) IN
    /\ at[1] < Len(textNodes)
    /\ ~RangeThrows(textNodes[at[1] + 1], at[2], Len(q))

\* The scan from the occurrence at pos (-1: none) on to the next occurrence
\* that gives a result, where the task awaits getChapterFromCfi; -1 when the
\* scan reaches the end of the text.
RECURSIVE NextAwait(_, _, _)
NextAwait(textNodes, q, pos) ==
    IF pos = -1 THEN -1
    ELSE IF GivesResult(textNodes, q, pos) THEN pos
    ELSE NextAwait(textNodes, q, indexOf(FullText(textNodes), q, pos + 1))

contextLength == 30

\* fullText.substring(Math.max(0, pos - contextLength),
\*                    pos + trimmedQuery.length + contextLength)
Excerpt(fullText, pos, length) ==
    LET from == IF pos - contextLength > 0 THEN pos - contextLength ELSE 0
        to == IF pos + length + contextLength < Len(fullText)
              THEN pos + length + contextLength ELSE Len(fullText)
    IN  SubSeq(fullText, from + 1, to)

\* The title getChapterFromCfi resolves with for a position in a chapter.
ChapterTitle(chapterIndex) == <<"Chapter", chapterIndex + 1>>

\* The result pushed for the occurrence at pos: the cfi of the range is
\* modelled by the chapter, the node and the offset of its start.
SearchResult(textNodes, q, pos, chapterIndex) ==
    LET at == NodeAt(textNodes, 0, pos) IN
    [cfi |-> <<chapterIndex, at[1], at[2]>>,
     excerpt |-> <<"...">> \o Excerpt(FullText(textNodes), pos, Len(q)) \o <<"...">>,
     href |-> <<"href", chapterIndex>>,
     chapterTitle |-> ChapterTitle(chapterIndex),
     chapterIndex |-> chapterIndex]

\* A chapter task of a searchBook call, at its item.load.  loaded: item.load
\* has resolved for the task and the task has not called item.unload.
NewTask == [pc |-> "load", textNodes |-> <<>>, pos |-> -1, loaded |-> FALSE]

\* The task after it pushed what it had and scanned on from pos: at the next
\* await, or at its end after item.unload.
ScannedTask(textNodes, q, pos) ==
    LET next == NextAwait(textNodes, q, pos) IN
    [pc |-> IF next = -1 THEN "done" ELSE "title", textNodes |-> textNodes, pos |-> next,
     loaded |-> next # -1]

\* The task whose item.load rejected ("failed": the catch logs it), or
\* resolved with no item.document ("nodoc": if (!doc) return).
EndedTask(task, how) == [task EXCEPT !.pc = how, !.loaded = (how = "nodoc")]

\* Promise.all resolves as soon as some task of the call is over.
TasksOver_Some(call) ==
    \E i \in DOMAIN call.tasks : call.tasks[i].pc \in {"done", "failed", "nodoc"}

\* await Promise.all(promises): every task of the call is over.
TasksOver(call) ==
    \A i \in DOMAIN call.tasks : call.tasks[i].pc \in {"done", "failed", "nodoc"}

\* A search of which a chapter failed publishes nothing.
PublishedResults_NoneOnFailure(call, prev) ==
    IF \E i \in DOMAIN call.tasks : call.tasks[i].pc = "failed" THEN <<>> ELSE call.results

\* The results of the call are added to those published before.
PublishedResults_Appended(call, prev) == prev \o call.results

\* setSearchResults(results): what the call publishes, prev being published.
PublishedResults(call, prev) == call.results

\* results.length > 0 ? 0 : -1 (line 615)
FirstIndex_AlwaysZero(results) == 0
FirstIndex(results) == IF Len(results) > 0 THEN 0 ELSE -1

----------------------------------------------------------------------------
(* handleClick *)

\* Where the point of a click is for the range of a position: inside one of
\* its rectangles, outside all of them (or there is no range), or getRange
\* throws.
RangeTests == [Cfis -> {"inside", "outside", "throws"}]
NoClick == [n |-> 0, ranges |-> [cfi \in Cfis |-> "outside"]]

\* The loops of lines 965-982 and 985-1002: the first annotation of the
\* collection with a rectangle that contains the point, <<>> for none.
\* Without the try of lines 966 and 986 inside the loop, a getRange that
\* throws would end it.
RECURSIVE FirstInside_ThrowEndsLoop(_, _)
FirstInside_ThrowEndsLoop(coll, ranges) ==
    IF coll = <<>> THEN <<>>
    ELSE IF ranges[Head(coll).cfi] = "throws" THEN <<>>
    ELSE IF ranges[Head(coll).cfi] = "inside" THEN <<Head(coll)>>
    ELSE FirstInside_ThrowEndsLoop(Tail(coll), ranges)

RECURSIVE FirstInside(_, _)
FirstInside(coll, ranges) ==
    IF coll = <<>> THEN <<>>
    ELSE IF ranges[Head(coll).cfi] = "inside" THEN <<Head(coll)>>
    ELSE FirstInside(Tail(coll), ranges)

\* What a click sets: the notes are tried first and the highlights only if
\* no note contains the point.
ClickTarget_HighlightsFirst(ns, hs, ranges) ==
    IF FirstInside(hs, ranges) # <<>>
    THEN [kind |-> "highlight", item |-> FirstInside(hs, ranges)]
    ELSE IF FirstInside(ns, ranges) # <<>>
    THEN [kind |-> "note", item |-> FirstInside(ns, ranges)]
    ELSE [kind |-> "none", item |-> <<>>]

ClickTarget(ns, hs, ranges) ==
    IF FirstInside(ns, ranges) # <<>>
    THEN [kind |-> "note", item |-> FirstInside(ns, ranges)]
    ELSE IF FirstInside(hs, ranges) # <<>>
    THEN [kind |-> "highlight", item |-> FirstInside(hs, ranges)]
    ELSE [kind |-> "none", item |-> <<>>]

----------------------------------------------------------------------------
(* enhanceTocWithPages *)

\* An entry of a table of contents is [label, subitems]; its label here is
\* its path in the table.  An enhanced entry has a page besides: <<>> for
\* undefined, else <<page>>.  book.locations is absent ("missing"), or its
\* length() gives `length` but for the entries at the indexes of throwsAt,
\* where it throws.
undefined == <<>>
NoLocations == [kind |-> "length", length |-> 0, throwsAt |-> {}]

NavItem(path, subitems) == [label |-> path, subitems |-> subitems]

\* The tables of a given shape: shape[k] is the number of subitems of the
\* k-th entry.
TocOf(shape) ==
    [k \in DOMAIN shape |->
        NavItem(<<k>>, [j \in 1..shape[k] |-> NavItem(<<k, j>>, <<>>)])]

\* A table three levels deep: A [a1 [x], a2], B.
DeepToc ==
    <<NavItem(<<1>>, <<NavItem(<<1, 1>>, <<NavItem(<<1, 1, 1>>, <<>>)>>),
                      NavItem(<<1, 2>>, <<>>)>>),
      NavItem(<<2>>, <<>>)>>

Tocs ==
    {TocOf(shape) : shape \in UNION {[1..n -> 0..MaxSubitems] : n \in 0..MaxTocItems}}
        \cup {DeepToc}

LocationLengths == {0, 1, 3, 100}
BookLocations ==
    {[kind |-> "missing", length |-> 0, throwsAt |-> {}]}
        \cup {[kind |-> "length", length |-> l, throwsAt |-> t] :
                  l \in LocationLengths, t \in {{}, {1}}}

\* The table and the locations of the two documents.
Navigation(u) == IF u = "a.epub" THEN TocOf(<<1, 0>>) ELSE TocOf(<<0>>)
Locations(u) ==
    [kind |-> "length", length |-> IF u = "a.epub" THEN 4 ELSE 1, throwsAt |-> {}]

\* Lines 499-508.  index / n * length is taken in exact arithmetic; the
\* floating point of the source gives the same for the numbers used here.
EstimatedPage_NoUpperClamp(index, n, book) ==
    IF book.kind = "length" /\ index \notin book.throwsAt /\ book.length > 0
    THEN LET page == (index * book.length) \div n + 1 IN
         <<IF page < 1 THEN 1 ELSE page>>
    ELSE undefined

EstimatedPage_NoEmptyTest(index, n, book) ==
    IF book.kind = "length" /\ index \notin book.throwsAt
    THEN LET page == (index * book.length) \div n + 1 IN
         <<IF page < 1 THEN 1 ELSE IF page > book.length THEN book.length ELSE page>>
    ELSE undefined

EstimatedPage(index, n, book) ==
    IF book.kind = "length" /\ index \notin book.throwsAt /\ book.length > 0
    THEN LET page == (index * book.length) \div n + 1 IN
         <<IF page < 1 THEN 1 ELSE IF page > book.length THEN book.length ELSE page>>
    ELSE undefined

\* enhanceItem (lines 496-519): n is tocItems.length, the number of entries
\* of the top level, and a subitem gets index + subIndex + 1.
RECURSIVE enhanceItem(_, _, _, _)
enhanceItem(item, index, n, book) ==
    [label |-> item.label,
     page |-> EstimatedPage(index, n, book),
     subitems |-> [k \in DOMAIN item.subitems |->
                      enhanceItem(item.subitems[k], index + (k - 1) + 1, n, book)]]

enhanceTocWithPages(tocItems, book) ==
    [k \in DOMAIN tocItems |-> enhanceItem(tocItems[k], k - 1, Len(tocItems), book)]

\* Lines 753-756: the enhanced table is set and persisted.  (The catch of
\* lines 757-761 is for a rejected enhanceTocWithPages, which entries that
\* are objects do not give.)
TocStored(store, u, enhancedToc) ==
    setItem(store, STORAGE_KEY_TOC(u), JSONStringifyArray(enhancedToc))

TocBuilt(store, tocItems, book) ==
    /\ toc' = enhanceTocWithPages(tocItems, book)
    /\ localStorage' = TocStored(store, url, toc')

----------------------------------------------------------------------------
(* The state updates of the collections.  A callback dispatches an update  *)
(* (setHighlights, setBookmarks, setNotes): an updater function or a       *)
(* value.  React runs an updater when the component renders, in the order  *)
(* of the dispatches; the first updater dispatched to a component with no  *)
(* update pending it runs at the dispatch.                                 *)

Update(coll, kind, arg) ==
    [coll |-> coll, kind |-> kind, arg |-> arg, eager |-> updateQueue = <<>>]

StorageKey(coll, u) ==
    CASE coll = "highlights" -> STORAGE_KEY_HIGHLIGHTS(u)
      [] coll = "bookmarks" -> STORAGE_KEY_BOOKMARK(u)
      [] OTHER -> STORAGE_KEY_NOTES(u)

\* The state an update gives from the state prev.
RunUpdater(upd, prev) ==
    CASE upd.kind = "append" -> Append(prev, upd.arg)
      [] upd.kind = "filter" -> FilterOutCfi(prev, upd.arg[1])
      [] upd.kind = "mapColor" -> MapColor(prev, upd.arg[1], upd.arg[2])
      [] upd.kind = "mapNote" -> MapNote(prev, upd.arg[1], upd.arg[2])
      [] upd.kind = "clear" -> <<>>
      [] OTHER -> upd.arg

\* What an updater does to localStorage when it runs: setItem of the updated
\* array, or removeItem (removeAllBookmarks, removeAllNotes); a value does
\* nothing.
UpdaterStore(upd, store, prev, u) ==
    CASE upd.kind \in {"append", "filter", "mapColor", "mapNote"} ->
            setItem(store, StorageKey(upd.coll, u), JSONStringifyArray(RunUpdater(upd, prev)))
      [] upd.kind = "clear" -> removeItem(store, StorageKey(upd.coll, u))
      [] OTHER -> store

\* What an updater does to the overlays when it runs: updateHighlightColor
\* removes and adds the overlay of each highlight at the cfi.
UpdaterOverlays(upd, ov, prev) ==
    IF upd.kind = "mapColor"
    THEN ov \cup {<<prev[i].type, prev[i].cfi>> : i \in {j \in DOMAIN prev : prev[j].cfi = upd.arg[1]}}
    ELSE ov

\* The render: the pending updates in their order.
RECURSIVE ApplyUpdates(_, _, _)
ApplyUpdates(queue, st, u) ==
    IF queue = <<>> THEN st
    ELSE LET upd == Head(queue)
             prev == st[upd.coll]
             next == [st EXCEPT
                        ![upd.coll] = RunUpdater(upd, prev),
                        !.store = IF upd.eager THEN @ ELSE UpdaterStore(upd, @, prev, u),
                        !.overlays = IF upd.eager THEN @ ELSE UpdaterOverlays(upd, @, prev)]
         IN  ApplyUpdates(Tail(queue), next, u)

----------------------------------------------------------------------------
(* The initial state: nothing persisted, the atoms at their defaults, no   *)
(* hook mounted.                                                           *)

InitHook ==
    /\ localStorage = [k \in Keys |-> NULL]
    /\ totalBookChars = 0
    /\ copiedChars = 0
    /\ copyAllowance = 10
    /\ pc = "none"
    /\ url = "none"
    /\ isCopyProtected = FALSE
    /\ copyAllowancePercentage = 10
    /\ bookRef = "null"
    /\ isLoading = TRUE
    /\ savedTotalChars = NULL
    /\ countTask = <<>>
    /\ pending = <<>>
    /\ ret = [n |-> 0, outcome |-> "none", len |-> 0, prot |-> FALSE, url |-> "none"]
    /\ clipboard = -1
    /\ totalCounts = [u \in Urls |-> 0]
    /\ sessionLoads = 0
    /\ nSessions = 0
    /\ highlights = <<>>
    /\ bookmarks = <<>>
    /\ notes = <<>>
    /\ location = "null"
    /\ bookmarkCalls = <<>>
    /\ clock = 0
    /\ updateQueue = <<>>
    /\ overlays = {}
    /\ bookmarksCleared = FALSE
    /\ spine = "null"
    /\ searchResults = <<>>
    /\ currentSearchResultIndex = -1
    /\ isSearching = FALSE
    /\ searchCalls = <<>>
    /\ lastSearch = [called |-> FALSE, query |-> <<>>, ready |-> FALSE, loads |-> 0]
    /\ lastPublished = [called |-> FALSE, query |-> <<>>, ends |-> <<>>]
    /\ searchOverlays = <<>>
    /\ previousSearchHighlights = <<>>
    /\ selectedCfi = <<>>
    /\ previousSelectedCfi = <<>>

\* No book is ready and nothing was clicked.
InitView ==
    /\ navigation = <<>>
    /\ locations = NoLocations
    /\ toc = <<>>
    /\ editingNote = <<>>
    /\ clickedHighlight = <<>>
    /\ lastClick = NoClick
    /\ error = FALSE
    /\ goToRejected = FALSE

Init == InitHook /\ InitView

----------------------------------------------------------------------------
(* Session start *)

\* The hook is rendered with its props and its effects run in the order of
\* the source: the allowance validation effect, then the init effect and the
\* load effects of the highlights, the bookmarks and the notes.  An effect
\* that throws keeps the later ones from running and ends the component.
Mount(u, prot, pct) ==
    /\ pc = "none"
    /\ nSessions < MaxSessions
    /\ nSessions' = nSessions + 1
    /\ url' = u
    /\ isCopyProtected' = prot
    /\ copyAllowancePercentage' = pct
    /\ isLoading' = TRUE
    /\ IF ~ValidAllowance(pct)
       THEN /\ copyAllowance' = copyAllowance
            /\ bookRef' = "null"
            /\ pc' = "configError"
            /\ UNCHANGED <<localStorage, highlights, bookmarks, notes, overlays>>
       ELSE /\ copyAllowance' = pct
            /\ LET parsed == LoadSavedArray(localStorage, STORAGE_KEY_HIGHLIGHTS(u)) IN
               IF LoadThrows(localStorage, u)
               THEN /\ pc' = "loadError"
                    /\ bookRef' = "null"
                    /\ localStorage' = ReAddedStore(localStorage, u, parsed, clock, FALSE)
                    /\ highlights' = <<>>
                    /\ bookmarks' = <<>>
                    /\ notes' = <<>>
                    /\ overlays' = {}
               ELSE /\ pc' = "loading"
                    /\ bookRef' = u
                    /\ localStorage' = ReAddedStore(localStorage, u, parsed, clock, TRUE)
                    /\ highlights' = parsed
                    /\ bookmarks' = LoadSavedArray(localStorage, STORAGE_KEY_BOOKMARK(u))
                    /\ notes' = LoadSavedArray(localStorage, STORAGE_KEY_NOTES(u))
                    /\ overlays' = LoadedOverlays(highlights', notes')
    /\ UNCHANGED <<totalBookChars, copiedChars, savedTotalChars, countTask, totalCounts,
                   sessionLoads, copyVars, location, bookmarkCalls, clock, updateQueue,
                   bookmarksCleared>>
    /\ error' = FALSE
    /\ UNCHANGED <<searchVars, selectVars, tocVars, clickVars, goToRejected>>

\* ePub(url) or book.renderTo throws in the init effect (lines 705-713): its
\* catch sets the error and ends the loading (lines 809-813); there is no
\* book and no rendition, and the load effects run as in Mount.  (Calls of
\* the callbacks of a hook without a book are not part of the model.)
InitThrows(u, prot, pct) ==
    /\ pc = "none"
    /\ nSessions < MaxSessions
    /\ ValidAllowance(pct)
    /\ ~LoadThrows(localStorage, u)
    /\ nSessions' = nSessions + 1
    /\ url' = u
    /\ isCopyProtected' = prot
    /\ copyAllowancePercentage' = pct
    /\ copyAllowance' = pct
    /\ error' = TRUE
    /\ isLoading' = FALSE
    /\ bookRef' = "null"
    /\ pc' = "initError"
    /\ LET parsed == LoadSavedArray(localStorage, STORAGE_KEY_HIGHLIGHTS(u)) IN
       /\ localStorage' = ReAddedStore(localStorage, u, parsed, clock, TRUE)
       /\ highlights' = parsed
    /\ bookmarks' = LoadSavedArray(localStorage, STORAGE_KEY_BOOKMARK(u))
    /\ notes' = LoadSavedArray(localStorage, STORAGE_KEY_NOTES(u))
    /\ UNCHANGED <<totalBookChars, copiedChars, savedTotalChars, countTask, totalCounts,
                   sessionLoads, copyVars, location, bookmarkCalls, clock, updateQueue,
                   overlays, bookmarksCleared>>
    /\ UNCHANGED <<searchVars, selectVars, tocVars, clickVars, goToRejected>>

\* book.ready rejects: the callback of book.ready.then (line 716), which
\* has no rejection handler, never runs.
BookReadyRejects ==
    /\ pc = "loading"
    /\ Rendered
    /\ pc' = "aborted"
    /\ UNCHANGED <<nSessions, localStorage, quotaVars, propVars, bookRef, isLoading,
                   savedTotalChars, countTask, totalCounts, sessionLoads, copyVars,
                   annotVars>>
    /\ UNCHANGED <<searchVars, selectVars, viewVars>>

\* book.ready resolves: up to the total count.  Unprotected, or with a saved
\* total, the continuation runs on through the quota part to the table of
\* contents.
BookReady ==
    /\ pc = "loading"
    /\ Rendered
    /\ IF ~isCopyProtected
       THEN /\ pc' = "ready"
            /\ isLoading' = FALSE
            /\ UNCHANGED <<totalBookChars, copiedChars, savedTotalChars, countTask,
                           sessionLoads>>
       ELSE /\ savedTotalChars' = localStorage[STORAGE_KEY_TOTAL_CHARS(url)]
            /\ IF Truthy(savedTotalChars')
               THEN /\ totalBookChars' = JSONParseNumber(savedTotalChars')
                    /\ copiedChars' =
                          LoadSaved(localStorage, STORAGE_KEY_COPIED_CHARS(url), copiedChars)
                    /\ pc' = "ready"
                    /\ isLoading' = FALSE
                    /\ UNCHANGED <<countTask, sessionLoads>>
               ELSE /\ countTask' = [i \in 1..Len(spineItems(url)) |-> "loading"]
                    /\ sessionLoads' = Len(spineItems(url))
                    /\ pc' = "counting"
                    /\ UNCHANGED <<totalBookChars, copiedChars, isLoading>>
    /\ spine' = url
    /\ navigation' = Navigation(url)
    /\ locations' = Locations(url)
    /\ IF pc' = "ready"
       THEN TocBuilt(localStorage, navigation', locations')
       ELSE UNCHANGED <<toc, localStorage>>
    /\ UNCHANGED <<nSessions, copyAllowance, propVars, bookRef, totalCounts,
                   copyVars, annotVars, searchResults, currentSearchResultIndex,
                   isSearching, searchCalls, lastSearch, lastPublished, selectVars,
                   clickVars, error, goToRejected>>

\* One spine item of the count: load resolves, the text is read, unload.
CountChapter(i) ==
    /\ pc = "counting"
    /\ Rendered
    /\ i \in DOMAIN countTask
    /\ countTask[i] = "loading"
    /\ countTask' = [countTask EXCEPT ![i] = "done"]
    /\ UNCHANGED <<nSessions, localStorage, quotaVars, propVars, pc, bookRef, isLoading,
                   savedTotalChars, totalCounts, sessionLoads, copyVars, annotVars>>
    /\ UNCHANGED <<searchVars, selectVars, viewVars>>

\* One spine item of the count fails (load rejects, or no document body):
\* Promise.all rejects and the continuation of book.ready ends there.
CountChapterFail(i) ==
    /\ pc = "counting"
    /\ Rendered
    /\ i \in DOMAIN countTask
    /\ countTask[i] = "loading"
    /\ countTask' = [countTask EXCEPT ![i] = "failed"]
    /\ pc' = "aborted"
    /\ UNCHANGED <<nSessions, localStorage, quotaVars, propVars, bookRef, isLoading,
                   savedTotalChars, totalCounts, sessionLoads, copyVars, annotVars>>
    /\ UNCHANGED <<searchVars, selectVars, viewVars>>

\* Promise.all resolves: the total is set and persisted, the saved copied
\* count is read, the table of contents is set and persisted.
CountFinish ==
    /\ pc = "counting"
    /\ Rendered
    /\ \A i \in DOMAIN countTask : countTask[i] = "done"
    /\ totalBookChars' = ComputeTotalChars(url)
    /\ TocBuilt(setItem(localStorage, STORAGE_KEY_TOTAL_CHARS(url),
                        JSONStringifyNumber(totalBookChars')),
                navigation, locations)
    /\ totalCounts' = [totalCounts EXCEPT ![url] = @ + 1]
    /\ copiedChars' = LoadSaved(localStorage, STORAGE_KEY_COPIED_CHARS(url), copiedChars)
    /\ pc' = "ready"
    /\ isLoading' = FALSE
    /\ UNCHANGED <<nSessions, copyAllowance, propVars, bookRef, savedTotalChars, countTask,
                   sessionLoads, copyVars, annotVars>>
    /\ UNCHANGED <<searchVars, selectVars, navigation, locations, clickVars, error,
                   goToRejected>>

\* The hook is unmounted (also what React does after the validation effect
\* threw).  The continuation of book.ready is abandoned with the book and
\* the state of the component and the rendition are gone; the atoms,
\* localStorage and pending clipboard writes live on.  Like every event that
\* is not a call of the host, it finds the pending updates rendered.
Unmount ==
    /\ pc # "none"
    /\ Rendered
    /\ pc' = "none"
    /\ url' = "none"
    /\ isCopyProtected' = FALSE
    /\ copyAllowancePercentage' = 10
    /\ bookRef' = "null"
    /\ isLoading' = TRUE
    /\ savedTotalChars' = NULL
    /\ countTask' = <<>>
    /\ sessionLoads' = 0
    /\ highlights' = <<>>
    /\ bookmarks' = <<>>
    /\ notes' = <<>>
    /\ location' = "null"
    /\ bookmarkCalls' = <<>>
    /\ overlays' = {}
    /\ bookmarksCleared' = FALSE
    /\ spine' = "null"
    /\ searchResults' = <<>>
    /\ currentSearchResultIndex' = -1
    /\ isSearching' = FALSE
    /\ searchCalls' = <<>>
    /\ lastSearch' = [called |-> FALSE, query |-> <<>>, ready |-> FALSE, loads |-> 0]
    /\ lastPublished' = [called |-> FALSE, query |-> <<>>, ends |-> <<>>]
    /\ searchOverlays' = <<>>
    /\ previousSearchHighlights' = <<>>
    /\ selectedCfi' = <<>>
    /\ previousSelectedCfi' = <<>>
    /\ navigation' = <<>>
    /\ locations' = NoLocations
    /\ toc' = <<>>
    /\ editingNote' = <<>>
    /\ clickedHighlight' = <<>>
    /\ lastClick' = NoClick
    /\ error' = FALSE
    /\ goToRejected' = FALSE
    /\ UNCHANGED <<nSessions, localStorage, quotaVars, totalCounts, copyVars, clock,
                   updateQueue>>

----------------------------------------------------------------------------
(* copyText *)

\* copyText(text) up to its await: the unprotected branch, or the quota
\* check and its throw.
CopyCall(len) ==
    /\ Mounted
    /\ ret.n + Len(pending) < MaxCalls
    /\ LET c == [len |-> len, prot |-> isCopyProtected, url |-> url] IN
       IF isCopyProtected /\ QuotaExceeded(copiedChars, len, totalBookChars, copyAllowance)
       THEN /\ ret' = Returned("Copy limit exceeded", c)
            /\ UNCHANGED pending
       ELSE /\ Len(pending) < MaxPending
            /\ pending' = AddPending(pending, c)
            /\ UNCHANGED ret
    /\ UNCHANGED <<localStorage, quotaVars, propVars, sessionVars, clipboard,
                   annotVars>>
    /\ UNCHANGED <<searchVars, selectVars, viewVars>>

\* navigator.clipboard.writeText resolves for the k-th pending call.
ClipboardResolve(k) ==
    /\ k \in 1..Len(pending)
    /\ Rendered
    /\ LET c == pending[k] IN
       /\ clipboard' = c.len
       /\ pending' = RemoveAt(pending, k)
       /\ ret' = Returned("resolved", c)
       /\ IF c.prot
          THEN /\ copiedChars' = NewCopiedChars(copiedChars, c.len)
               /\ localStorage' = PersistCopiedChars(localStorage, c.url, copiedChars')
          ELSE UNCHANGED <<copiedChars, localStorage>>
    /\ UNCHANGED <<totalBookChars, copyAllowance, propVars, sessionVars, annotVars>>
    /\ UNCHANGED <<searchVars, selectVars, viewVars>>

\* navigator.clipboard.writeText rejects for the k-th pending call.
ClipboardReject(k) ==
    /\ k \in 1..Len(pending)
    /\ Rendered
    /\ LET c == pending[k] IN
       /\ pending' = RemoveAt(pending, k)
       /\ ret' = Returned(OutcomeOnReject(c.prot), c)
    /\ UNCHANGED <<localStorage, quotaVars, propVars, sessionVars, clipboard,
                   annotVars>>
    /\ UNCHANGED <<searchVars, selectVars, viewVars>>

----------------------------------------------------------------------------
(* The annotation callbacks *)

\* A callback has issued its overlay commands and written to localStorage
\* (ov and store are what they are then) and dispatches the update upd,
\* which React runs now if no update is pending.
Dispatch(upd, store, ov) ==
    /\ Len(updateQueue) < MaxBatch
    /\ updateQueue' = Append(updateQueue, upd)
    /\ localStorage' =
          IF upd.eager
          THEN UpdaterStore(upd, store, [highlights |-> highlights, bookmarks |-> bookmarks,
                                         notes |-> notes][upd.coll], url)
          ELSE store
    /\ overlays' =
          IF upd.eager
          THEN UpdaterOverlays(upd, ov, [highlights |-> highlights, bookmarks |-> bookmarks,
                                         notes |-> notes][upd.coll])
          ELSE ov

\* The component renders: the pending updates take effect.
Render ==
    /\ Mounted
    /\ ~Rendered
    /\ LET st == ApplyUpdates(updateQueue,
                              [highlights |-> highlights, bookmarks |-> bookmarks,
                               notes |-> notes, store |-> localStorage,
                               overlays |-> overlays], url) IN
       /\ highlights' = st.highlights
       /\ bookmarks' = st.bookmarks
       /\ notes' = st.notes
       /\ localStorage' = st.store
       /\ overlays' = st.overlays
    /\ updateQueue' = <<>>
    /\ UNCHANGED <<quotaVars, propVars, sessionVars, copyVars, location, bookmarkCalls,
                   clock, bookmarksCleared>>
    /\ UNCHANGED <<searchVars, selectVars, viewVars>>

\* rendition "relocated": the document is displayed at cfi.
handleRelocated(cfi) ==
    /\ pc = "ready"
    /\ Rendered
    /\ location' = cfi
    /\ localStorage' = setItem(localStorage, STORAGE_KEY_LOC(url), Item(<<cfi>>))
    /\ UNCHANGED <<quotaVars, propVars, sessionVars, copyVars, highlights, bookmarks,
                   notes, bookmarkCalls, clock, updateQueue, overlays, bookmarksCleared>>
    /\ UNCHANGED <<searchVars, selectVars, viewVars>>

addHighlight(cfi, type, color) ==
    /\ Mounted
    /\ clock < MaxAnnotations
    /\ Dispatch(Update("highlights", "append", NewHighlight(cfi, type, color, clock)),
                localStorage, overlays \cup {<<type, cfi>>})
    /\ clock' = clock + 1
    /\ UNCHANGED <<quotaVars, propVars, sessionVars, copyVars, highlights, bookmarks,
                   notes, location, bookmarkCalls, bookmarksCleared>>
    /\ UNCHANGED <<searchVars, selectVars, viewVars>>

\* The type is handed to the overlay only: the filter is by cfi.
removeHighlight(cfi, type) ==
    /\ Mounted
    /\ Dispatch(Update("highlights", "filter", <<cfi, type>>),
                localStorage, overlays \ {<<type, cfi>>})
    /\ UNCHANGED <<quotaVars, propVars, sessionVars, copyVars, highlights, bookmarks,
                   notes, location, bookmarkCalls, clock, bookmarksCleared>>
    /\ UNCHANGED <<searchVars, selectVars, viewVars>>

\* The overlays are removed as "highlight" whatever the type of the entry,
\* the item is removed at the call, and the state is set to a value.
removeAllHighlights ==
    /\ Mounted
    /\ Dispatch(Update("highlights", "value", <<>>),
                removeItem(localStorage, STORAGE_KEY_HIGHLIGHTS(url)),
                overlays \ {<<"highlight", highlights[i].cfi>> : i \in DOMAIN highlights})
    /\ UNCHANGED <<quotaVars, propVars, sessionVars, copyVars, highlights, bookmarks,
                   notes, location, bookmarkCalls, clock, bookmarksCleared>>
    /\ UNCHANGED <<searchVars, selectVars, viewVars>>

updateHighlightColor(cfi, newColor) ==
    /\ Mounted
    /\ Dispatch(Update("highlights", "mapColor", <<cfi, newColor>>), localStorage, overlays)
    /\ UNCHANGED <<quotaVars, propVars, sessionVars, copyVars, highlights, bookmarks,
                   notes, location, bookmarkCalls, clock, bookmarksCleared>>
    /\ UNCHANGED <<searchVars, selectVars, viewVars>>

\* addBookmark up to its await: with no location or no book it returns; else
\* it goes on with the location it was called at.
addBookmark ==
    /\ Mounted
    /\ clock + Len(bookmarkCalls) < MaxAnnotations
    /\ IF location = "null" \/ bookRef = "null"
       THEN UNCHANGED bookmarkCalls
       ELSE bookmarkCalls' = Append(bookmarkCalls, location)
    /\ bookmarksCleared' = FALSE
    /\ UNCHANGED <<localStorage, quotaVars, propVars, sessionVars, copyVars, highlights,
                   bookmarks, notes, location, clock, updateQueue, overlays>>
    /\ UNCHANGED <<searchVars, selectVars, viewVars>>

\* getChapterFromCfi resolves for the oldest addBookmark call: the rest of it.
addBookmarkResolved ==
    /\ bookmarkCalls # <<>>
    /\ Rendered
    /\ Dispatch(Update("bookmarks", "append", NewBookmark(Head(bookmarkCalls), clock)),
                localStorage, overlays)
    /\ bookmarkCalls' = Tail(bookmarkCalls)
    /\ clock' = clock + 1
    /\ UNCHANGED <<quotaVars, propVars, sessionVars, copyVars, highlights, bookmarks,
                   notes, location, bookmarksCleared>>
    /\ UNCHANGED <<searchVars, selectVars, viewVars>>

removeBookmark(cfiToRemove) ==
    /\ Mounted
    /\ Dispatch(Update("bookmarks", "filter", <<cfiToRemove>>), localStorage, overlays)
    /\ UNCHANGED <<quotaVars, propVars, sessionVars, copyVars, highlights, bookmarks,
                   notes, location, bookmarkCalls, clock, bookmarksCleared>>
    /\ UNCHANGED <<searchVars, selectVars, viewVars>>

removeAllBookmarks ==
    /\ Mounted
    /\ Dispatch(Update("bookmarks", "clear", <<>>), localStorage, overlays)
    /\ bookmarksCleared' = TRUE
    /\ UNCHANGED <<quotaVars, propVars, sessionVars, copyVars, highlights, bookmarks,
                   notes, location, bookmarkCalls, clock>>
    /\ UNCHANGED <<searchVars, selectVars, viewVars>>

\* The overlay of a note is an overlay of type "highlight".
addNote(cfi, note) ==
    /\ Mounted
    /\ clock < MaxAnnotations
    /\ Dispatch(Update("notes", "append", NewNote(cfi, note, clock)),
                localStorage, overlays \cup {<<"highlight", cfi>>})
    /\ clock' = clock + 1
    /\ UNCHANGED <<quotaVars, propVars, sessionVars, copyVars, highlights, bookmarks,
                   notes, location, bookmarkCalls, bookmarksCleared>>
    /\ UNCHANGED <<searchVars, selectVars, viewVars>>

removeNote(cfi) ==
    /\ Mounted
    /\ Dispatch(Update("notes", "filter", <<cfi>>),
                localStorage, overlays \ {<<"highlight", cfi>>})
    /\ UNCHANGED <<quotaVars, propVars, sessionVars, copyVars, highlights, bookmarks,
                   notes, location, bookmarkCalls, clock, bookmarksCleared>>
    /\ UNCHANGED <<searchVars, selectVars, viewVars>>

removeAllNotes ==
    /\ Mounted
    /\ Dispatch(Update("notes", "clear", <<>>),
                localStorage,
                overlays \ {<<"highlight", notes[i].cfi>> : i \in DOMAIN notes})
    /\ UNCHANGED <<quotaVars, propVars, sessionVars, copyVars, highlights, bookmarks,
                   notes, location, bookmarkCalls, clock, bookmarksCleared>>
    /\ UNCHANGED <<searchVars, selectVars, viewVars>>

editNote(cfi, newNote) ==
    /\ Mounted
    /\ Dispatch(Update("notes", "mapNote", <<cfi, newNote>>), localStorage, overlays)
    /\ UNCHANGED <<quotaVars, propVars, sessionVars, copyVars, highlights, bookmarks,
                   notes, location, bookmarkCalls, clock, bookmarksCleared>>
    /\ UNCHANGED <<searchVars, selectVars, viewVars>>

\* A persisted collection of the document is damaged while no session is
\* open: what the catch blocks of the load effects are there for.
StorageCorrupted(coll) ==
    /\ pc = "none"
    /\ Truthy(localStorage[StorageKey(coll, "a.epub")])
    /\ JSONParses(localStorage[StorageKey(coll, "a.epub")])
    /\ localStorage' = [localStorage EXCEPT ![StorageKey(coll, "a.epub")] = CutShort(@)]
    /\ UNCHANGED <<quotaVars, propVars, sessionVars, copyVars, annotVars>>
    /\ UNCHANGED <<searchVars, selectVars, viewVars>>

----------------------------------------------------------------------------
(* searchBook.  A call that gets past its early returns starts one task    *)
(* per spine item; a task awaits item.load and then, for each occurrence   *)
(* that gives a result, getChapterFromCfi; the call awaits all its tasks   *)
(* and publishes the results they pushed.  The state updates of the search *)
(* are values and are modelled as taking effect at the call.               *)

MinQueryLength == 3

\* annotations.remove(cfi, "highlight") for each cfi of cfis.
RemoveOverlays(ov, cfis) == [cfi \in DOMAIN ov \ cfis |-> ov[cfi]]

\* annotations.add("highlight", cfi, ...) with a style for each cfi of cfis:
\* the overlay at the cfi is the one added last.
AddOverlays(ov, cfis, style) ==
    [cfi \in DOMAIN ov \cup cfis |-> IF cfi \in cfis THEN style ELSE ov[cfi]]

\* The position in the text that a position selected by the user is at:
\* the first is the range of a match of "a", the second is not one.
RangeOf(cfi) == IF cfi = "cfi1" THEN <<0, 0, 0>> ELSE <<1, 0, 0>>

\* annotations.remove(cfi, "highlight") for each cfi of cfis removes the
\* "highlight" overlay at the cfi, that of a highlight or a note of the
\* user as well.
WithoutOverlaysAt(userOverlays, cfis) ==
    {o \in userOverlays : ~(o[1] = "highlight" /\ RangeOf(o[2]) \in cfis)}

\* The cfis of results.
CfisOf(results) == {results[k].cfi : k \in DOMAIN results}

\* The effect leaves the overlays of the previous results in place.
HighlightSearchResults_KeepsPrevious(ov, previous, results) ==
    AddOverlays(ov, CfisOf(results), "searchResult")

\* The highlight search results effect: the overlays of the previous
\* results are removed, those of the results are added.
HighlightSearchResults(ov, previous, results) ==
    AddOverlays(RemoveOverlays(ov, {previous[k] : k \in DOMAIN previous}),
                CfisOf(results), "searchResult")

\* The effect adds the new overlay without removing the previous one.
HighlightSelected_KeepsPrevious(ov, previous, selected) ==
    IF selected = <<>> THEN ov ELSE AddOverlays(ov, {selected}, "selected")

\* The highlight selected search effect for a selectedCfi that changed: the
\* overlay at previousSelectedCfi is removed, one is added at selectedCfi.
\* Its second run, after setPreviousSelectedCfi(selectedCfi), removes and
\* adds the overlay at selectedCfi.
HighlightSelected(ov, previous, selected) ==
    IF selected = <<>> THEN ov
    ELSE AddOverlays(RemoveOverlays(ov, IF previous = <<>> THEN {} ELSE {previous}),
                     {selected}, "selected")

\* The effects of a render in which searchResults is set to results.
SearchResultsSet(results) ==
    /\ searchOverlays' =
          HighlightSearchResults(searchOverlays, previousSearchHighlights, results)
    /\ previousSearchHighlights' = [k \in DOMAIN results |-> results[k].cfi]
    /\ overlays' =
          WithoutOverlaysAt(overlays,
                            {previousSearchHighlights[k] : k \in DOMAIN previousSearchHighlights})
    /\ UNCHANGED <<selectedCfi, previousSelectedCfi>>

\* The effects of a render in which selectedCfi is set to cfi.
SelectedCfiSet(cfi) ==
    /\ selectedCfi' = cfi
    /\ IF cfi = selectedCfi \/ cfi = <<>>
       THEN UNCHANGED <<searchOverlays, previousSelectedCfi, overlays>>
       ELSE /\ searchOverlays' = HighlightSelected(searchOverlays, previousSelectedCfi, cfi)
            /\ overlays' =
                  WithoutOverlaysAt(overlays,
                                    {cfi} \cup (IF previousSelectedCfi = <<>> THEN {}
                                                ELSE {previousSelectedCfi}))
            /\ previousSelectedCfi' = cfi
    /\ UNCHANGED previousSearchHighlights

\* setSearchResults([]); setCurrentSearchResultIndex(-1)
NoResults ==
    /\ searchResults' = <<>>
    /\ currentSearchResultIndex' = -1
    /\ SearchResultsSet(<<>>)

\* searchBook(query) up to its first await.
searchBook(query) ==
    /\ Mounted
    /\ Rendered
    /\ isSearching' = TRUE
    /\ IF query = <<>> \/ bookRef = "null" \/ spine = "null"
       THEN NoResults /\ UNCHANGED searchCalls
       ELSE IF TrimmedQuery(query) = <<>>
       THEN NoResults /\ UNCHANGED searchCalls
       ELSE IF Len(spineItems(spine)) = 0
       THEN NoResults /\ UNCHANGED searchCalls
       ELSE /\ Len(searchCalls) < MaxSearches
            /\ searchCalls' =
                  Append(searchCalls,
                         [query |-> TrimmedQuery(query),
                          tasks |-> [i \in 1..Len(spineItems(spine)) |-> NewTask],
                          results |-> <<>>])
            /\ UNCHANGED <<searchResults, currentSearchResultIndex, selectVars, overlays>>
    /\ lastSearch' = [called |-> TRUE, query |-> query,
                      ready |-> bookRef # "null" /\ spine # "null",
                      loads |-> IF Len(searchCalls') > Len(searchCalls)
                                THEN Len(searchCalls'[Len(searchCalls')].tasks) ELSE 0]
    /\ UNCHANGED <<localStorage, quotaVars, propVars, sessionVars, copyVars, storeVars,
                   viewVars, spine, lastPublished>>

\* The search effect, run for a debounced query.
searchEffect(query) ==
    /\ Mounted
    /\ Rendered
    /\ IF Len(trim(query)) = 0
       THEN /\ NoResults
            /\ UNCHANGED <<localStorage, quotaVars, propVars, sessionVars, copyVars,
                           storeVars, viewVars, spine, isSearching, searchCalls,
                           lastSearch, lastPublished>>
       ELSE IF Len(query) >= MinQueryLength
       THEN searchBook(query)
       ELSE UNCHANGED vars

\* item.load resolves for the task of spine item i (chapterIndex i - 1) of
\* call c and the document has the text nodes doc: the scan up to the first
\* await of getChapterFromCfi, or to its end and item.unload.
ChapterLoaded(c, i, doc) ==
    /\ Rendered
    /\ c \in DOMAIN searchCalls
    /\ i \in DOMAIN searchCalls[c].tasks
    /\ searchCalls[c].tasks[i].pc = "load"
    /\ LET q == searchCalls[c].query IN
       searchCalls' =
          [searchCalls EXCEPT
              ![c].tasks[i] = ScannedTask(doc, q, indexOf(FullText(doc), q, 0))]
    /\ UNCHANGED <<localStorage, quotaVars, propVars, sessionVars, copyVars, annotVars,
                   viewVars, spine, searchResults, currentSearchResultIndex, isSearching, lastSearch,
                   lastPublished, selectVars>>

\* item.load rejects ("failed": caught and logged), or resolves without a
\* document ("nodoc": the task returns): the task is over, with no result.
ChapterNotLoaded(c, i, how) ==
    /\ Rendered
    /\ c \in DOMAIN searchCalls
    /\ i \in DOMAIN searchCalls[c].tasks
    /\ searchCalls[c].tasks[i].pc = "load"
    /\ searchCalls' = [searchCalls EXCEPT ![c].tasks[i] = EndedTask(@, how)]
    /\ UNCHANGED <<localStorage, quotaVars, propVars, sessionVars, copyVars, annotVars,
                   viewVars, spine, searchResults, currentSearchResultIndex, isSearching, lastSearch,
                   lastPublished, selectVars>>

\* getChapterFromCfi resolves for the task: results.push, and the scan on
\* to the next await or to its end.
ChapterTitleResolved(c, i) ==
    /\ Rendered
    /\ c \in DOMAIN searchCalls
    /\ i \in DOMAIN searchCalls[c].tasks
    /\ searchCalls[c].tasks[i].pc = "title"
    /\ LET q == searchCalls[c].query
           task == searchCalls[c].tasks[i]
           doc == task.textNodes
       IN  searchCalls' =
              [searchCalls EXCEPT
                  ![c].results = Append(@, SearchResult(doc, q, task.pos, i - 1)),
                  ![c].tasks[i] =
                      ScannedTask(doc, q, indexOf(FullText(doc), q, task.pos + 1))]
    /\ UNCHANGED <<localStorage, quotaVars, propVars, sessionVars, copyVars, annotVars,
                   viewVars, spine, searchResults, currentSearchResultIndex, isSearching, lastSearch,
                   lastPublished, selectVars>>

\* Promise.all(promises) resolves for call c: the results are published.
SearchFinished(c) ==
    /\ Rendered
    /\ c \in DOMAIN searchCalls
    /\ TasksOver(searchCalls[c])
    /\ searchResults' = PublishedResults(searchCalls[c], searchResults)
    /\ SearchResultsSet(searchResults')
    /\ currentSearchResultIndex' = FirstIndex(searchCalls[c].results)
    /\ isSearching' = FALSE
    /\ searchCalls' = RemoveAt(searchCalls, c)
    /\ lastPublished' =
          [called |-> TRUE, query |-> searchCalls[c].query,
           ends |-> [i \in DOMAIN searchCalls[c].tasks |-> searchCalls[c].tasks[i].pc]]
    /\ UNCHANGED <<localStorage, quotaVars, propVars, sessionVars, copyVars, storeVars,
                   viewVars, spine, lastSearch>>

\* goToSearchResult(index)
goToSearchResult(index) ==
    /\ Mounted
    /\ Rendered
    /\ IF index >= 0 /\ index < Len(searchResults)
       THEN /\ SelectedCfiSet(searchResults[index + 1].cfi)
            /\ currentSearchResultIndex' = index
            /\ UNCHANGED goToRejected
       ELSE /\ UNCHANGED <<selectVars, currentSearchResultIndex, overlays>>
            /\ goToRejected' = ~goToRejected
    /\ UNCHANGED <<localStorage, quotaVars, propVars, sessionVars, copyVars, storeVars,
                   tocVars, clickVars, error, spine, searchResults, isSearching,
                   searchCalls, lastSearch, lastPublished>>

\* goToCfi(cfi)
goToCfi(cfi) ==
    /\ Mounted
    /\ Rendered
    /\ SelectedCfiSet(cfi)
    /\ UNCHANGED <<localStorage, quotaVars, propVars, sessionVars, copyVars, storeVars,
                   viewVars, searchVars>>

----------------------------------------------------------------------------
(* handleClick *)

\* A click in the rendition (lines 952-1002; the selection and the image
\* preview, which it sets as well, are not part of the model).  The handler
\* is registered anew when notes or highlights change, so it sees those of
\* the last render.
handleClick(ranges) ==
    /\ Mounted
    /\ Rendered
    /\ lastClick.n < MaxClicks
    /\ lastClick' = [n |-> lastClick.n + 1, ranges |-> ranges]
    /\ LET target == ClickTarget(notes, highlights, ranges) IN
       /\ editingNote' = IF target.kind = "note" THEN target.item ELSE editingNote
       /\ clickedHighlight' = IF target.kind = "highlight" THEN target.item ELSE <<>>
    /\ UNCHANGED <<localStorage, quotaVars, propVars, sessionVars, copyVars, annotVars,
                   searchVars, selectVars, tocVars, error, goToRejected>>

----------------------------------------------------------------------------

(* The specification of the quota: one document, every allowance. *)

StartNext(urls, percentages) ==
    \/ \E u \in urls, prot \in BOOLEAN, pct \in percentages : Mount(u, prot, pct)
    \/ BookReady
    \/ \E i \in 1..2 : CountChapter(i)
    \/ \E i \in 1..2 : CountChapterFail(i)
    \/ CountFinish
    \/ Unmount

CopyNext(lengths) ==
    \/ \E len \in lengths : CopyCall(len)
    \/ \E k \in 1..MaxPending : ClipboardResolve(k)
    \/ \E k \in 1..MaxPending : ClipboardReject(k)

Next ==
    \/ StartNext({"a.epub"}, Percentages)
    \/ CopyNext(TextLengths)

Spec == Init /\ [][Next]_vars

\* Sessions on both documents, with the full allowance and two texts.
NextDocs ==
    \/ StartNext(Urls, {100})
    \/ CopyNext({10, 30})

SpecDocs == Init /\ [][NextDocs]_vars

\* Unprotected sessions on one document.
SessionNext ==
    \/ Mount("a.epub", FALSE, 10)
    \/ BookReady
    \/ Unmount

\* Calls of the callbacks of the highlights.
HighlightCalls(cfis, types, colors) ==
    \/ \E cfi \in cfis, type \in types, color \in colors : addHighlight(cfi, type, color)
    \/ \E cfi \in cfis, type \in types : removeHighlight(cfi, type)
    \/ removeAllHighlights
    \/ \E cfi \in cfis, color \in colors : updateHighlightColor(cfi, color)

\* Sessions and the callbacks of the highlights, each call in an event of
\* its own (the component renders before the next one).
NextHighlights ==
    \/ SessionNext
    \/ (Rendered /\ HighlightCalls(Cfis, HighlightTypes, Colors))
    \/ Render

SpecHighlights == Init /\ [][NextHighlights]_vars

\* Sessions and the callbacks of the highlights at one position, called
\* back to back as well: up to MaxBatch calls before the component renders.
NextBatch ==
    \/ SessionNext
    \/ HighlightCalls({"cfi1"}, {"highlight"}, {"yellow"})
    \/ Render

SpecBatch == Init /\ [][NextBatch]_vars

\* Calls of the callbacks of the bookmarks and of the notes.
MarkCalls ==
    \/ addBookmark
    \/ \E cfi \in Cfis : removeBookmark(cfi)
    \/ removeAllBookmarks
    \/ \E cfi \in Cfis : addNote(cfi, "n1")
    \/ \E cfi \in Cfis : removeNote(cfi)
    \/ removeAllNotes
    \/ \E cfi \in Cfis, note \in NoteTexts : editNote(cfi, note)

\* Sessions and the callbacks of the bookmarks and of the notes, each call
\* in an event of its own.
NextMarks ==
    \/ SessionNext
    \/ handleRelocated("cfi1")
    \/ (Rendered /\ MarkCalls)
    \/ addBookmarkResolved
    \/ Render

SpecMarks == Init /\ [][NextMarks]_vars

\* Sessions in which an annotation of each kind is added at one position,
\* and between which a persisted collection is damaged.
NextLoad ==
    \/ SessionNext
    \/ handleRelocated("cfi1")
    \/ (Rendered /\ \E type \in HighlightTypes : addHighlight("cfi1", type, "yellow"))
    \/ (Rendered /\ addBookmark)
    \/ addBookmarkResolved
    \/ (Rendered /\ addNote("cfi1", "n1"))
    \/ Render
    \/ \E coll \in {"highlights", "bookmarks", "notes"} : StorageCorrupted(coll)

SpecLoad == Init /\ [][NextLoad]_vars

\* The steps of the chapter tasks of the searchBook calls in flight, the
\* documents of the chapters being among docs.
SearchTasks(docs) ==
    \/ \E c \in DOMAIN searchCalls : \E i \in DOMAIN searchCalls[c].tasks : \E doc \in docs :
          ChapterLoaded(c, i, doc)
    \/ \E c \in DOMAIN searchCalls : \E i \in DOMAIN searchCalls[c].tasks :
          \E how \in {"failed", "nodoc"} : ChapterNotLoaded(c, i, how)
    \/ \E c \in DOMAIN searchCalls : \E i \in DOMAIN searchCalls[c].tasks :
          ChapterTitleResolved(c, i)
    \/ \E c \in DOMAIN searchCalls : SearchFinished(c)

\* Chapter documents of the two-chapter document: "a" and "bA" in two text
\* nodes, and "b".
SearchDocuments == {<<<<"a">>, <<"b", "A">>>>, <<<<"b">>>>}

\* Sessions on the two-chapter document with searches, through searchBook
\* and through the search effect, whose chapter tasks interleave; a search
\* is started when none is in flight.
NextSearch ==
    \/ SessionNext
    \/ \E query \in {<<>>, <<" ">>} : searchBook(query)
    \/ (searchCalls = <<>> /\ searchBook(<<"a">>))
    \/ \E query \in {<<>>, <<" ", " ", " ">>} : searchEffect(query)
    \/ (searchCalls = <<>> /\ \E query \in {<<"a">>, <<" ", "A", " ">>} : searchEffect(query))
    \/ SearchTasks(SearchDocuments)

SpecSearch == Init /\ [][NextSearch]_vars

\* The same, with every promise of a search settling: item.load and
\* getChapterFromCfi resolve or reject, Promise.all resolves.
SpecSearchLive == Init /\ [][NextSearch]_vars /\ WF_vars(SearchTasks(SearchDocuments))

\* Sessions on the one-chapter document with one search each, over every
\* query and every chapter document of the model.
NextScan ==
    \/ Mount("b.epub", FALSE, 10)
    \/ BookReady
    \/ Unmount
    \/ (~lastSearch.called /\ \E query \in Queries : searchBook(query))
    \/ SearchTasks(Documents)

SpecScan == Init /\ [][NextScan]_vars

\* Sessions on the one-chapter document with searches for "a" and for "b"
\* that overlap: up to MaxSearches calls are in flight.
NextOverlap ==
    \/ Mount("b.epub", FALSE, 10)
    \/ BookReady
    \/ Unmount
    \/ \E query \in {<<"a">>, <<"B">>} : searchBook(query)
    \/ SearchTasks(SearchDocuments)

SpecOverlap == Init /\ [][NextOverlap]_vars

\* Positions goToCfi is called with: two that are matches of "a" in the
\* chapter documents, one that is not.
Positions == {<<0, 0, 0>>, <<1, 1, 1>>, <<0, 1, 0>>}

\* Sessions on the two-chapter document with searches for "a", one at a
\* time, and selections of results and of positions.
NextSelect ==
    \/ SessionNext
    \/ searchBook(<<>>)
    \/ (searchCalls = <<>> /\ searchBook(<<"a">>))
    \/ SearchTasks(SearchDocuments)
    \/ \E index \in 0..(Len(searchResults) - 1) : goToSearchResult(index)
    \/ \E cfi \in Positions : goToCfi(cfi)

SpecSelect == Init /\ [][NextSelect]_vars

\* Sessions with searches for "a" and goToSearchResult with indexes in
\* and out of range.
NextIndex ==
    \/ SessionNext
    \/ searchBook(<<>>)
    \/ (searchCalls = <<>> /\ searchBook(<<"a">>))
    \/ searchEffect(<<>>)
    \/ SearchTasks(SearchDocuments)
    \/ \E index \in -1..Len(searchResults) : goToSearchResult(index)

SpecIndex == Init /\ [][NextIndex]_vars

\* Sessions in which a highlight and a note are added and goToCfi is
\* called with the position of a highlight, as the highlights list does,
\* and with another position.
NextStored ==
    \/ SessionNext
    \/ (Rendered /\ addHighlight("cfi1", "highlight", "yellow"))
    \/ (Rendered /\ addNote("cfi2", "n1"))
    \/ Render
    \/ \E k \in DOMAIN highlights : goToCfi(RangeOf(highlights[k].cfi))
    \/ goToCfi(<<0, 1, 0>>)

SpecStored == Init /\ [][NextStored]_vars

\* enhanceTocWithPages as a function of its two arguments: a table of
\* contents and a book are given, of every shape within the bounds, and the
\* step of lines 753-756 is taken with them.
InitToc ==
    /\ InitHook
    /\ navigation \in Tocs
    /\ locations \in BookLocations
    /\ toc = <<>>
    /\ editingNote = <<>>
    /\ clickedHighlight = <<>>
    /\ lastClick = NoClick
    /\ error = FALSE
    /\ goToRejected = FALSE

EnhanceToc ==
    /\ toc = <<>>
    /\ TocBuilt(localStorage, navigation, locations)
    /\ UNCHANGED <<quotaVars, propVars, sessionVars, copyVars, annotVars, searchVars,
                   selectVars, navigation, locations, clickVars, error, goToRejected>>

NextToc == EnhanceToc

SpecToc == InitToc /\ [][NextToc]_vars

\* Sessions in which notes and highlights are added and the rendition is
\* clicked.
NextClick ==
    \/ SessionNext
    \/ (Rendered /\ \E cfi \in Cfis, note \in NoteTexts : addNote(cfi, note))
    \/ (Rendered /\ \E cfi \in Cfis : addHighlight(cfi, "highlight", "yellow"))
    \/ Render
    \/ \E ranges \in RangeTests : handleClick(ranges)

SpecClick == Init /\ [][NextClick]_vars

\* Sessions on both documents, in which the position is relocated and a
\* note is added.
NextKeys ==
    \/ StartNext(Urls, {100})
    \/ handleRelocated("cfi1")
    \/ (Rendered /\ addNote("cfi1", "n1"))
    \/ Render

SpecKeys == Init /\ [][NextKeys]_vars

\* Sessions on both documents whose book may fail to load, at once or
\* when it becomes ready.
NextFail ==
    \/ StartNext(Urls, {100})
    \/ \E u \in Urls, prot \in BOOLEAN : InitThrows(u, prot, 100)
    \/ BookReadyRejects

\* What the book and its spine items do on their own: every promise of
\* theirs settles.  Mounting and unmounting are the host's.
Settles ==
    \/ BookReady
    \/ BookReadyRejects
    \/ \E i \in 1..2 : CountChapter(i)
    \/ \E i \in 1..2 : CountChapterFail(i)
    \/ CountFinish

SpecFail == Init /\ [][NextFail]_vars /\ WF_vars(Settles)

----------------------------------------------------------------------------
(* What a step did, for the properties of copyText *)

Occurrences(seq, c) == Cardinality({i \in DOMAIN seq : seq[i] = c})

\* This step is a call of copyText (up to its await or its throw).
CallStarted == ret'.n + Len(pending') = ret.n + Len(pending) + 1

\* The call of this step went on to navigator.clipboard.writeText.
Admitted == Len(pending') = Len(pending) + 1

AdmittedCall ==
    CHOOSE c \in {pending'[i] : i \in DOMAIN pending'} :
        Occurrences(pending', c) > Occurrences(pending, c)

\* The length of the text of the call of this step.
CallLen == IF Admitted THEN AdmittedCall.len ELSE ret'.len

\* A call returned to its caller in this step.
CallReturned == ret'.n = ret.n + 1

\* The call of this step was denied: it threw "Copy limit exceeded".
Denied == CallReturned /\ ret'.outcome = "Copy limit exceeded"

\* A protected call acknowledged success in this step.
ProtectedSuccess == CallReturned /\ ret'.prot /\ ret'.outcome = "resolved"

\* The init effect's read of the saved counts completes in this step.
SessionStartLoad == pc \in {"loading", "counting"} /\ pc' = "ready"

----------------------------------------------------------------------------
(* C1 *)

\* C1: in restricted mode a copyText call is authorized iff copiedChars +
\* text.length <= totalChars * allowancePercent / 100, a call that is not
\* authorized is denied, and a copy acknowledged as a success adds exactly
\* text.length to copiedChars.
C1_AuthorizedIffWithinAllowance ==
    [][/\ (CallStarted /\ isCopyProtected) =>
            /\ (Admitted <=> (copiedChars + CallLen) * 100 <= totalBookChars * copyAllowance)
            /\ (~Admitted => Denied)
       /\ (ProtectedSuccess => copiedChars' = copiedChars + ret'.len)]_vars

\* 400 characters at 10%: the third call, of 10, has succeeded and 40 are copied.
C1_Witness ==
    /\ pc = "ready" /\ isCopyProtected
    /\ totalBookChars = 400 /\ copyAllowance = 10
    /\ copiedChars = 40
    /\ ret = [n |-> 3, outcome |-> "resolved", len |-> 10, prot |-> TRUE, url |-> "a.epub"]

----------------------------------------------------------------------------
(* C2 *)

\* The allowance is reached in a protected session whose counts are loaded.
AllowanceReached ==
    /\ pc = "ready"
    /\ isCopyProtected
    /\ copiedChars * 100 >= totalBookChars * copyAllowance

\* C2: once copiedChars has reached the allowance it stays reached for as
\* long as the session lasts, and every copyText call with a text of length
\* > 0 made then is denied.
C2_DeniedOnceAllowanceReached ==
    [][AllowanceReached =>
          /\ (pc' = "ready" => AllowanceReached')
          /\ ((CallStarted /\ CallLen > 0) => (Denied /\ ~Admitted))]_vars

\* The allowance of 40 is used up and a call with 10 characters was denied.
C2_Witness ==
    /\ AllowanceReached
    /\ totalBookChars = 400 /\ copyAllowance = 10 /\ copiedChars = 40
    /\ ret.outcome = "Copy limit exceeded" /\ ret.len = 10 /\ ret.n = 3

----------------------------------------------------------------------------
(* C3 *)

\* C3: a protected copyText call that would exceed the quota throws to its
\* caller, is not handed to the clipboard, leaves the clipboard, copiedChars
\* and localStorage as they were, and leaves the session as it was.
C3_DeniedCopyChangesNothing ==
    [][(/\ CallStarted
        /\ isCopyProtected
        /\ (copiedChars + CallLen) * 100 > totalBookChars * copyAllowance) =>
          /\ Denied
          /\ ret'.len = CallLen /\ ret'.prot /\ ret'.url = url
          /\ pending' = pending
          /\ clipboard' = clipboard
          /\ copiedChars' = copiedChars
          /\ localStorage' = localStorage
          /\ pc' = pc /\ isLoading' = isLoading /\ bookRef' = bookRef]_vars

\* 30 of the 40 allowed characters are copied and a call with 15 was denied.
C3_Witness ==
    /\ pc = "ready" /\ isCopyProtected
    /\ totalBookChars = 400 /\ copyAllowance = 10 /\ copiedChars = 30
    /\ clipboard = 30
    /\ ret = [n |-> 2, outcome |-> "Copy limit exceeded", len |-> 15, prot |-> TRUE,
               url |-> "a.epub"]

----------------------------------------------------------------------------
(* C4 *)

\* C4: in unrestricted mode every copyText call is handed to the clipboard,
\* returns without a failure whether the clipboard write succeeds or not,
\* and neither the call nor its return changes copiedChars or localStorage.
C4_UnprotectedNeverFailsNorCounts ==
    [][/\ ((CallStarted /\ ~isCopyProtected) =>
            (Admitted /\ copiedChars' = copiedChars /\ localStorage' = localStorage))
       /\ ((CallReturned /\ ~ret'.prot) =>
            (/\ ret'.outcome = "resolved"
             /\ copiedChars' = copiedChars
             /\ localStorage' = localStorage))]_vars

\* Three unprotected calls have returned and no clipboard write succeeded.
C4_Witness ==
    /\ ~isCopyProtected /\ pc = "ready"
    /\ ret.n = 3 /\ ~ret.prot /\ ret.outcome = "resolved" /\ ret.len = 30
    /\ clipboard = -1

----------------------------------------------------------------------------
(* C5 *)

\* C5: in the step in which a protected copyText acknowledges success, the
\* copied-char count persisted under the key of the call is the new
\* cumulative copiedChars.
C5_PersistedBeforeAcknowledged ==
    [][ProtectedSuccess =>
          /\ Truthy(localStorage'[STORAGE_KEY_COPIED_CHARS(ret'.url)])
          /\ JSONParseNumber(localStorage'[STORAGE_KEY_COPIED_CHARS(ret'.url)])
                = copiedChars']_vars

\* Two protected copies were acknowledged; 45 characters are copied and persisted.
C5_Witness ==
    /\ ret.prot /\ ret.outcome = "resolved" /\ ret.len = 15
    /\ copiedChars = 45
    /\ localStorage[STORAGE_KEY_COPIED_CHARS("a.epub")] = Item(<<4, 5>>)

----------------------------------------------------------------------------
(* C6 *)

\* C6: copiedChars >= 0 in every reachable state; no step but the read of
\* the saved count at session start decreases it; a protected copy
\* acknowledged as a success adds the length of its text, and every other
\* return of copyText (unprotected, denied, failed clipboard write) leaves
\* it unchanged.
C6_CopiedCharsNeverDecreases ==
    /\ [](copiedChars >= 0)
    /\ [][/\ (~SessionStartLoad => copiedChars' >= copiedChars)
           /\ (CallReturned =>
                IF ret'.prot /\ ret'.outcome = "resolved"
                THEN copiedChars' = copiedChars + ret'.len
                ELSE copiedChars' = copiedChars)]_vars

\* After a copy of 30 and one of 10, a protected clipboard write failed.
C6_Witness ==
    /\ copiedChars = 40
    /\ ret.n = 3 /\ ret.prot /\ ret.outcome = "rejected" /\ ret.len = 10

----------------------------------------------------------------------------
(* C7 *)

\* C7: a hook mounted with copyAllowancePercentage < 0 or > 100 is in the
\* configuration error and stays there: no book is created and loading never
\* ends; with a percentage in [0, 100] it is not, the percentage is the
\* allowance and the book is created.
C7_InvalidAllowanceNeverStarts ==
    pc # "none" =>
        IF copyAllowancePercentage < 0 \/ copyAllowancePercentage > 100
        THEN /\ pc = "configError"
             /\ bookRef = "null"
             /\ isLoading
        ELSE /\ pc \in {"loading", "counting", "ready", "aborted"}
             /\ copyAllowance = copyAllowancePercentage
             /\ bookRef = url

\* A second hook, mounted with 101, is in the configuration error.
C7_Witness ==
    /\ pc = "configError" /\ copyAllowancePercentage = 101
    /\ nSessions = 2 /\ copyAllowance = 100

----------------------------------------------------------------------------
(* C8 *)

\* C8: the total is computed at most once per document; a persisted total is
\* the sum of the chapter lengths of its document; a protected session that
\* finds a persisted total issues no chapter load of the count; and in every
\* ready protected session totalBookChars is the total of its document.
C8_TotalCharsComputedOnce ==
    /\ \A u \in Urls :
          /\ totalCounts[u] <= 1
          /\ (Truthy(localStorage[STORAGE_KEY_TOTAL_CHARS(u)]) =>
                (/\ totalCounts[u] = 1
                 /\ JSONParseNumber(localStorage[STORAGE_KEY_TOTAL_CHARS(u)])
                       = SumSeq(spineItems(u))))
    /\ ((Mounted /\ isCopyProtected /\ Truthy(savedTotalChars)) => sessionLoads = 0)
    /\ ((pc = "ready" /\ isCopyProtected) =>
          (/\ totalBookChars = SumSeq(spineItems(url))
           /\ Truthy(localStorage[STORAGE_KEY_TOTAL_CHARS(url)])))

\* A second protected session on b.epub took the total persisted by the first.
C8_Witness ==
    /\ pc = "ready" /\ isCopyProtected /\ url = "b.epub"
    /\ nSessions = 2
    /\ Truthy(savedTotalChars)
    /\ sessionLoads = 0
    /\ totalCounts["b.epub"] = 1
    /\ totalBookChars = 40

----------------------------------------------------------------------------
(* C9 *)

\* C9: the highlights collection holds at most one entry per (position,
\* kind): an addHighlight with a (position, kind) that is present replaces
\* the entry and adds no second one.
C9_OneHighlightPerPositionAndKind ==
    \A i, j \in DOMAIN highlights :
        (highlights[i].cfi = highlights[j].cfi /\ highlights[i].type = highlights[j].type)
            => i = j

----------------------------------------------------------------------------
(* C10 *)

\* C10: the bookmarks collection holds at most one bookmark per position and
\* the notes collection at most one note per position.
C10_OneBookmarkAndNotePerPosition ==
    /\ \A i, j \in DOMAIN bookmarks : (bookmarks[i].cfi = bookmarks[j].cfi => i = j)
    /\ \A i, j \in DOMAIN notes : (notes[i].cfi = notes[j].cfi => i = j)

----------------------------------------------------------------------------
(* What a step did, for the properties of the collections *)

\* This step is the render of one call alone, a remove by position on coll.
RemovalRendered(coll) ==
    /\ Len(updateQueue) = 1
    /\ updateQueue' = <<>>
    /\ updateQueue[1].coll = coll
    /\ updateQueue[1].kind = "filter"

\* The cfi (1) and the type (2) the removal of this step was called with.
RemovalArg(k) == updateQueue[1].arg[k]

\* The collection persisted under the key of coll for the document u, an
\* absent key being the empty collection.
Persisted(store, coll, u) ==
    IF Truthy(store[StorageKey(coll, u)]) /\ JSONParses(store[StorageKey(coll, u)])
    THEN JSONParseArray(store[StorageKey(coll, u)])
    ELSE <<>>

\* The component renders in this step the updates of calls on coll.
OperationsRendered(coll) ==
    /\ ~Rendered
    /\ Rendered'
    /\ \E i \in DOMAIN updateQueue : updateQueue[i].coll = coll

\* The hook is mounted in this step with an allowance that is accepted.
SessionStarted == pc = "none" /\ pc' \notin {"none", "configError"}

----------------------------------------------------------------------------
(* C11 *)

\* C11: a removeHighlight(cfi, type) with no highlight of that type at that
\* cfi in the collection leaves the highlights as they are, and so do
\* removeNote and removeBookmark with a cfi at which there is no entry.
C11_RemoveAbsentChangesNothing ==
    [][/\ ((/\ RemovalRendered("highlights")
             /\ \A i \in DOMAIN highlights :
                   ~(highlights[i].cfi = RemovalArg(1) /\ highlights[i].type = RemovalArg(2)))
            => highlights' = highlights)
       /\ ((/\ RemovalRendered("notes")
             /\ \A i \in DOMAIN notes : notes[i].cfi # RemovalArg(1))
            => notes' = notes)
       /\ ((/\ RemovalRendered("bookmarks")
             /\ \A i \in DOMAIN bookmarks : bookmarks[i].cfi # RemovalArg(1))
            => bookmarks' = bookmarks)]_vars

----------------------------------------------------------------------------
(* C12 *)

\* The entries of hs but those of the type at the cfi, in their order.
WithoutHighlight(hs, cfi, type) ==
    LET Keep(h) == ~(h.cfi = cfi /\ h.type = type) IN SelectSeq(hs, Keep)

\* C12: removeHighlight(cfi, type) removes the highlight of that type at
\* that cfi and nothing else: a highlight of the other type at the cfi and
\* the entries at other cfis stay, in their order.
C12_RemoveHighlightOfThatTypeOnly ==
    [][RemovalRendered("highlights") =>
          highlights' = WithoutHighlight(highlights, RemovalArg(1), RemovalArg(2))]_vars

----------------------------------------------------------------------------
(* C13 *)

\* C13: when the calls on a collection have taken effect (the component has
\* rendered them, one call or several made back to back), the collection
\* persisted under its key is the collection in memory.
C13_PersistedIsInMemory ==
    [][/\ (OperationsRendered("highlights") =>
              Persisted(localStorage', "highlights", url) = highlights')
       /\ (OperationsRendered("bookmarks") =>
              Persisted(localStorage', "bookmarks", url) = bookmarks')
       /\ (OperationsRendered("notes") =>
              Persisted(localStorage', "notes", url) = notes')]_vars

----------------------------------------------------------------------------
(* C14 *)

\* The overlays the annotations in memory call for: one of its type at the
\* cfi of each highlight, one (of type "highlight") at the cfi of each note.
OverlaysOfStore ==
    {<<highlights[i].type, highlights[i].cfi>> : i \in DOMAIN highlights}
        \cup {<<"highlight", notes[i].cfi>> : i \in DOMAIN notes}

\* C14: in a session that started with nothing saved, whenever the calls
\* have taken effect the overlays are those of the annotations in memory:
\* none is missing and none is left of an annotation that was removed.
C14_OverlaysMatchStore ==
    (Mounted /\ Rendered /\ nSessions = 1) => overlays = OverlaysOfStore

----------------------------------------------------------------------------
(* C15 *)

\* C15: a new session on the document starts with each collection as it was
\* persisted, every field of every entry included, and leaves the persisted
\* collections as they were.
C15_ReloadKeepsCollections ==
    [][SessionStarted =>
          \A coll \in {"highlights", "bookmarks", "notes"} :
              /\ [highlights |-> highlights', bookmarks |-> bookmarks', notes |-> notes'][coll]
                    = Persisted(localStorage, coll, url')
              /\ Persisted(localStorage', coll, url') = Persisted(localStorage, coll, url')]_vars

----------------------------------------------------------------------------
(* C16 *)

\* C16: a session whose allowance is accepted starts whatever is persisted:
\* a collection whose persisted value does not parse starts empty, the
\* others start as persisted, and no error ends the session at its load.
C16_UnparsableCollectionStartsEmpty ==
    [][SessionStarted =>
          /\ pc' = "loading"
          /\ \A coll \in {"highlights", "bookmarks", "notes"} :
                [highlights |-> highlights', bookmarks |-> bookmarks', notes |-> notes'][coll]
                    = Persisted(localStorage, coll, url')]_vars

----------------------------------------------------------------------------
(* C17 *)

\* C17: from the moment a removeAllBookmarks has taken effect until the next
\* call of addBookmark, the bookmarks are empty and nothing is persisted
\* under their key (the key is absent, or holds the empty array a
\* removeBookmark wrote since), whether or not an addBookmark called before
\* was still awaiting its chapter title.
C17_ClearedBookmarksStayCleared ==
    (Mounted /\ Rendered /\ bookmarksCleared) =>
        /\ bookmarks = <<>>
        /\ Persisted(localStorage, "bookmarks", url) = <<>>

----------------------------------------------------------------------------
(* C18 *)

\* A query with no character but spaces.
Blank(query) == \A i \in DOMAIN query : query[i] = " "

BlankQueries == {<<>>, <<" ">>, <<" ", " ">>, <<" ", " ", " ">>}

\* C18: a searchBook call with an empty or whitespace-only query returns at
\* once (no call is left in flight and nothing can fail), loads no chapter,
\* and leaves searchResults empty and currentSearchResultIndex at -1; the
\* search effect leaves the same for such a debounced query.
C18_BlankQueryGivesNoResults ==
    [][\A query \in BlankQueries :
          (searchBook(query) \/ searchEffect(query)) =>
              /\ searchCalls' = searchCalls
              /\ (searchBook(query) => lastSearch'.loads = 0)
              /\ searchResults' = <<>>
              /\ currentSearchResultIndex' = -1]_vars

\* A whitespace-only query was the last call, made with the book and the
\* spine at hand: it loaded nothing and left no results.
C18_Witness ==
    /\ lastSearch.called
    /\ lastSearch.query = <<" ">>
    /\ lastSearch.ready
    /\ lastSearch.loads = 0
    /\ searchResults = <<>>
    /\ currentSearchResultIndex = -1
    /\ searchCalls = <<>>
    /\ isSearching

----------------------------------------------------------------------------
(* C19 *)

\* q occurs in text at the offset p.
OccursAt(text, q, p) == p + Len(q) <= Len(text) /\ SubSeq(text, p + 1, p + Len(q)) = q

\* The offset in the concatenated text of the position in a text node.
FlatOffset(textNodes, nodeIndex, offset) ==
    Len(join(SubSeq(textNodes, 1, nodeIndex))) + offset

\* C19: when the task of a chapter that loaded is over, the call has for
\* each offset p of the chapter's lower-cased text exactly one result at p
\* if the query occurs at p and none if it does not, however the text is
\* split into text nodes.
C19_OneResultPerOccurrence ==
    \A c \in DOMAIN searchCalls : \A i \in DOMAIN searchCalls[c].tasks :
        LET call == searchCalls[c]
            task == call.tasks[i]
            AtOffset(p) ==
                {k \in DOMAIN call.results :
                    /\ call.results[k].chapterIndex = i - 1
                    /\ FlatOffset(task.textNodes, call.results[k].cfi[2],
                                  call.results[k].cfi[3]) = p}
        IN  task.pc = "done" =>
                \A p \in 0..Len(join(task.textNodes)) :
                    Cardinality(AtOffset(p))
                        = IF OccursAt(FullText(task.textNodes), call.query, p) THEN 1 ELSE 0

----------------------------------------------------------------------------
(* C20 *)

\* C20: the published searchResults are in the order of their chapters and,
\* within a chapter, of their places in the text, whichever task's load or
\* title lookup resolved first.
C20_ResultsInChapterOrder ==
    \A j, k \in DOMAIN searchResults :
        j < k =>
            \/ searchResults[j].chapterIndex < searchResults[k].chapterIndex
            \/ /\ searchResults[j].chapterIndex = searchResults[k].chapterIndex
               /\ \/ searchResults[j].cfi[2] < searchResults[k].cfi[2]
                  \/ /\ searchResults[j].cfi[2] = searchResults[k].cfi[2]
                     /\ searchResults[j].cfi[3] < searchResults[k].cfi[3]

----------------------------------------------------------------------------
(* C21 *)

\* A searchBook call leaves the calls in flight in this step, the hook
\* staying mounted.
CallLeaves == Len(searchCalls') < Len(searchCalls) /\ Mounted'

\* No chapter task of the call is at an await.
NoTaskRunning(call) ==
    \A i \in DOMAIN call.tasks : call.tasks[i].pc \notin {"load", "title"}

\* The results in rs of the chapter of spine item i.
ResultsOfChapter(rs, i) == {k \in DOMAIN rs : rs[k].chapterIndex = i - 1}

\* C21: searchResults gets results, and a call ends, only in a step in which
\* a call none of whose chapter tasks is still running publishes its
\* results: no result of a query is published while a task of it runs.
C21_PublishedAfterAllTasks ==
    [][(CallLeaves \/ (searchResults' # searchResults /\ searchResults' # <<>>)) =>
          \E c \in DOMAIN searchCalls :
              /\ NoTaskRunning(searchCalls[c])
              /\ searchCalls' = RemoveAt(searchCalls, c)
              /\ searchResults' = searchCalls[c].results]_vars

\* A call whose two chapter tasks both ran to their end has published the
\* results of both chapters.
C21_Witness ==
    /\ Mounted
    /\ lastPublished.called
    /\ lastPublished.ends = <<"done", "done">>
    /\ ResultsOfChapter(searchResults, 1) # {}
    /\ ResultsOfChapter(searchResults, 2) # {}

----------------------------------------------------------------------------
(* C22 *)

\* The offsets at which q occurs in the lower-cased text of the text nodes.
OccurrencesIn(textNodes, q) ==
    {p \in 0..Len(join(textNodes)) : OccursAt(FullText(textNodes), q, p)}

\* C22: a call of which a chapter task failed (item.load rejected, or gave
\* no document) still publishes: one result for each occurrence in every
\* chapter whose task ran to its end, and none for the chapter that failed.
C22_FailedChapterIsLeftOut ==
    [][CallLeaves =>
          \E c \in DOMAIN searchCalls :
              /\ searchCalls' = RemoveAt(searchCalls, c)
              /\ \A i \in DOMAIN searchCalls[c].tasks :
                    Cardinality(ResultsOfChapter(searchResults', i))
                        = IF searchCalls[c].tasks[i].pc = "done"
                          THEN Cardinality(OccurrencesIn(searchCalls[c].tasks[i].textNodes,
                                                         searchCalls[c].query))
                          ELSE 0]_vars

\* A call published the matches of one chapter, the load of the other
\* chapter having failed.
C22_Witness ==
    /\ Mounted
    /\ lastPublished.called
    /\ lastPublished.ends = <<"failed", "done">>
    /\ ResultsOfChapter(searchResults, 1) = {}
    /\ ResultsOfChapter(searchResults, 2) # {}

----------------------------------------------------------------------------
(* C23 *)

\* C23: a chapter task of searchBook that is over has unloaded the chapter
\* it loaded, on whichever path it ended.
C23_LoadedChapterIsUnloaded ==
    \A c \in DOMAIN searchCalls : \A i \in DOMAIN searchCalls[c].tasks :
        searchCalls[c].tasks[i].pc \in {"done", "failed", "nodoc"} =>
            ~searchCalls[c].tasks[i].loaded

----------------------------------------------------------------------------
(* C24 *)

\* The result r is a match of the query of the call, in the text of the
\* chapter task of the call it names.
MatchOf(call, r) ==
    /\ r.chapterIndex + 1 \in DOMAIN call.tasks
    /\ LET textNodes == call.tasks[r.chapterIndex + 1].textNodes IN
       OccursAt(FullText(textNodes), call.query, FlatOffset(textNodes, r.cfi[2], r.cfi[3]))

\* C24: a call in flight stays in flight, whatever other calls are made,
\* until it publishes; the call that publishes leaves as searchResults its
\* own results, all of them matches of its own query and none of another
\* call, so that after two overlapping calls the results are those of the
\* one that finished last.
C24_LastFinishedCallWins ==
    [][/\ CallLeaves =>
             \E c \in DOMAIN searchCalls :
                 /\ searchCalls' = RemoveAt(searchCalls, c)
                 /\ searchResults' = searchCalls[c].results
                 /\ \A k \in DOMAIN searchResults' : MatchOf(searchCalls[c], searchResults'[k])
       /\ (Mounted' /\ ~CallLeaves) =>
             /\ Len(searchCalls') >= Len(searchCalls)
             /\ \A c \in DOMAIN searchCalls : searchCalls'[c].query = searchCalls[c].query]_vars

\* Two calls overlapped and both are over: the call for "b" was made last,
\* the older call for "a" published last and its results are published.
C24_Witness ==
    /\ Mounted
    /\ lastSearch.called
    /\ lastSearch.query = <<"B">>
    /\ lastSearch.loads = 1
    /\ searchCalls = <<>>
    /\ lastPublished.called
    /\ lastPublished.query = <<"a">>
    /\ searchResults # <<>>

----------------------------------------------------------------------------
(* C25 *)

\* The positions at which the overlay is one of the style.
OverlaysOfStyle(ov, style) == {cfi \in DOMAIN ov : ov[cfi] = style}

\* C25: when a change of searchResults has been processed (a call published,
\* or the results were cleared), the search-result overlays are at the
\* positions of the current results and nowhere else.
C25_SearchOverlaysMatchResults ==
    [][((CallLeaves \/ searchResults' # searchResults) /\ Mounted') =>
          OverlaysOfStyle(searchOverlays', "searchResult") = CfisOf(searchResults')]_vars

\* A result had been selected, and a result set was then published: the
\* position still selected has the overlay of a search result again.
C25_Witness ==
    /\ Mounted
    /\ searchResults # <<>>
    /\ OverlaysOfStyle(searchOverlays, "searchResult") = CfisOf(searchResults)
    /\ selectedCfi \in CfisOf(searchResults)
    /\ previousSelectedCfi = selectedCfi

----------------------------------------------------------------------------
(* C26 *)

\* C26: at any time there is at most one overlay of the selected style, and
\* it is at the position selected last.
C26_OneSelectedOverlay ==
    Mounted =>
        /\ Cardinality(OverlaysOfStyle(searchOverlays, "selected")) <= 1
        /\ OverlaysOfStyle(searchOverlays, "selected") \subseteq {selectedCfi}

\* The second result is selected and has the selected overlay, after the
\* first one was: the overlay at the first result was removed.
C26_Witness ==
    /\ Mounted
    /\ Len(searchResults) >= 2
    /\ currentSearchResultIndex = 1
    /\ selectedCfi = searchResults[2].cfi
    /\ OverlaysOfStyle(searchOverlays, "selected") = {selectedCfi}
    /\ searchResults[1].cfi \notin DOMAIN searchOverlays

----------------------------------------------------------------------------
(* Table of contents *)

RECURSIVE PagesOf(_)
PagesOf(t) == UNION {{t[k].page} \cup PagesOf(t[k].subitems) : k \in DOMAIN t}

IsFlat(t) == \A k \in DOMAIN t : t[k].subitems = <<>>

\* floor(i / n * L) + 1 clamped to [1, L]
ClampedEstimate(i, n, L) ==
    LET page == (i * L) \div n + 1 IN
    IF page < 1 THEN 1 ELSE IF page > L THEN L ELSE page

\* C27: for a flat table of n entries and L > 0 locations the entry at
\* index i has page floor(i / n * L) + 1 clamped to [1, L]; every estimated
\* page of every entry, nested ones included, is in [1, L]; four flat
\* entries and L = 100 give 1, 26, 51, 76.
C27_FlatTocPages ==
    (toc # <<>> /\ locations.kind = "length" /\ locations.length > 0) =>
        LET n == Len(navigation)
            L == locations.length
        IN  /\ (IsFlat(navigation) /\ locations.throwsAt = {}) =>
                  /\ Len(toc) = n
                  /\ \A k \in 1..n : toc[k].page = <<ClampedEstimate(k - 1, n, L)>>
                  /\ (n = 4 /\ L = 100) =>
                        [k \in 1..n |-> toc[k].page] = <<<<1>>, <<26>>, <<51>>, <<76>>>>
            /\ \A page \in PagesOf(toc) : page # undefined => page[1] \in 1..L

C27_Witness ==
    /\ navigation = TocOf(<<0, 0, 0, 0>>)
    /\ locations = [kind |-> "length", length |-> 100, throwsAt |-> {}]
    /\ Len(toc) = 4
    /\ toc[2].page = <<26>>
    /\ localStorage[STORAGE_KEY_TOC(url)] = JSONStringifyArray(toc)

\* The entries of a table in depth-first pre-order.
RECURSIVE PreOrder(_)
PreOrder(t) ==
    IF t = <<>> THEN <<>>
    ELSE <<Head(t)>> \o PreOrder(Head(t).subitems) \o PreOrder(Tail(t))

\* C28: in a table with nested entries, the page of each entry is
\* estimated with n the number of all entries, nested ones counted, and i
\* the index of the entry in the depth-first pre-order of all entries.
C28_NestedTocNumbering ==
    (toc # <<>> /\ locations.kind = "length" /\ locations.length > 0
                /\ locations.throwsAt = {}) =>
        LET entries == PreOrder(toc)
            n == Len(entries)
        IN  \A i \in 1..n :
                entries[i].page = <<ClampedEstimate(i - 1, n, locations.length)>>

\* A table without its pages.
RECURSIVE Unenhanced(_)
Unenhanced(t) == [k \in DOMAIN t |-> NavItem(t[k].label, Unenhanced(t[k].subitems))]

----------------------------------------------------------------------------
(* Clicks *)

Clicked == lastClick'.n = lastClick.n + 1

\* The annotations of a collection with a rectangle that contains the point
\* of the click.
Containing(coll, ranges) == {k \in DOMAIN coll : ranges[coll[k].cfi] = "inside"}
FirstOf(hits) == CHOOSE k \in hits : \A j \in hits : k <= j

\* C30: a click selects at most one annotation.  If a note contains the
\* point, editingNote becomes the first such note of the collection and
\* clickedHighlight is null; if no note does, clickedHighlight becomes the
\* first highlight that contains it; if nothing does, clickedHighlight is
\* null and editingNote is unchanged.
C30_ClickSelectsFirstNoteThenHighlight ==
    [][Clicked =>
          LET noteHits == Containing(notes, lastClick'.ranges)
              highlightHits == Containing(highlights, lastClick'.ranges)
          IN  /\ noteHits # {} =>
                    /\ editingNote' = <<notes[FirstOf(noteHits)]>>
                    /\ clickedHighlight' = <<>>
              /\ (noteHits = {} /\ highlightHits # {}) =>
                    clickedHighlight' = <<highlights[FirstOf(highlightHits)]>>
              /\ (noteHits = {} /\ highlightHits = {}) =>
                    /\ clickedHighlight' = <<>>
                    /\ editingNote' = editingNote]_vars

\* The second click of a session is on a point that the note and the
\* highlight both contain: the note is the one edited and no highlight is
\* the clicked one.
C30_Witness ==
    /\ lastClick.n = 2
    /\ Len(notes) = 1
    /\ Len(highlights) = 1
    /\ notes[1].cfi # highlights[1].cfi
    /\ \A cfi \in Cfis : lastClick.ranges[cfi] = "inside"
    /\ editingNote = <<notes[1]>>
    /\ clickedHighlight = <<>>

----------------------------------------------------------------------------
(* Persisted keys *)

\* The key has the document in its name.
Namespaced(k, u) == Len(k) = 2 /\ k[2] = u

\* C31: every persisted key is namespaced by the document: a session on a
\* document never overwrites a value persisted by a session on another
\* document, so a persisted value changes only under a key of the document
\* of the session.
C31_KeysAreNamespaced ==
    [][\A k \in Keys :
          (localStorage[k].present /\ localStorage'[k] # localStorage[k]) =>
              Namespaced(k, url')]_vars

----------------------------------------------------------------------------
(* Load failure *)

\* The document failed to load: the book could not be constructed, or its
\* ready promise was rejected.
LoadFailed == pc = "initError" \/ (pc = "aborted" /\ countTask = <<>>)

\* C32: if the document fails to load, at the construction of the book or
\* when it becomes ready, the session eventually has error set and
\* isLoading = false.
C32_LoadFailureReachesErrorState ==
    [](LoadFailed => <>((error /\ ~isLoading) \/ pc = "none"))

----------------------------------------------------------------------------
(* Failed clipboard write *)

\* A protected call that was handed to the clipboard returns and the text
\* on the clipboard, which was not of the length of its text, is the same:
\* its write failed.
ProtectedWriteFailed ==
    /\ CallReturned
    /\ Len(pending') < Len(pending)
    /\ ret'.prot
    /\ clipboard # ret'.len
    /\ clipboard' = clipboard

\* C33: in restricted mode, when the clipboard write fails after the quota
\* check passed, copyText fails to its caller and copiedChars and the
\* persisted copied-char count are unchanged.
C33_FailedWriteConsumesNothing ==
    [][ProtectedWriteFailed =>
          /\ ret'.outcome = "rejected"
          /\ copiedChars' = copiedChars
          /\ localStorage' = localStorage]_vars

\* A copy of 10 succeeded, then the write of a copy of 30, which the
\* allowance of 40 admits, failed.
C33_Witness ==
    /\ pc = "ready" /\ isCopyProtected
    /\ totalBookChars = 400 /\ copyAllowance = 10
    /\ ret = [n |-> 2, outcome |-> "rejected", len |-> 30, prot |-> TRUE, url |-> "a.epub"]
    /\ clipboard = 10
    /\ copiedChars = 10
    /\ localStorage[STORAGE_KEY_COPIED_CHARS("a.epub")] = Item(<<1, 0>>)

----------------------------------------------------------------------------
(* Hit-testing with positions that do not resolve *)

\* The annotations of a collection whose getRange throws.
Throwing(coll, ranges) == {k \in DOMAIN coll : ranges[coll[k].cfi] = "throws"}

\* C34: an annotation whose lookup throws is skipped and the annotations
\* after it are still tested in order: a note after it that contains the
\* point is the one edited, a highlight that contains the point is the one
\* clicked when no note does, and with no annotation containing the point
\* the click ends as one on nothing.
C34_UnresolvedPositionIsSkipped ==
    [][(Clicked /\ Throwing(notes \o highlights, lastClick'.ranges) # {}) =>
          LET ranges == lastClick'.ranges
              noteHits == Containing(notes, ranges)
              highlightHits == Containing(highlights, ranges)
          IN  /\ \A k \in noteHits :
                    (/\ \A j \in noteHits : k <= j
                     /\ \E j \in Throwing(notes, ranges) : j < k) =>
                        editingNote' = <<notes[k]>>
              /\ \A k \in highlightHits :
                    (noteHits = {} /\ \A j \in highlightHits : k <= j) =>
                        clickedHighlight' = <<highlights[k]>>
              /\ (noteHits = {} /\ highlightHits = {}) =>
                    (clickedHighlight' = <<>> /\ editingNote' = editingNote)]_vars

\* Of two notes, getRange threw for the first and the second, which
\* contains the point of the click, is the one edited.
C34_Witness ==
    /\ lastClick.n > 0
    /\ Len(notes) = 2
    /\ lastClick.ranges[notes[1].cfi] = "throws"
    /\ lastClick.ranges[notes[2].cfi] = "inside"
    /\ editingNote = <<notes[2]>>
    /\ clickedHighlight = <<>>

----------------------------------------------------------------------------
(* Overlapping copies *)

\* C35: in restricted mode copiedChars never exceeds the allowance
\* totalBookChars * copyAllowance / 100, overlapping copyText calls
\* included: a copy of the session that is acknowledged leaves copiedChars
\* within the allowance.
C35_CopiedCharsWithinAllowance ==
    [][(ProtectedSuccess /\ ret'.url = url /\ pc = "ready") =>
          copiedChars' * 100 <= totalBookChars' * copyAllowance']_vars

----------------------------------------------------------------------------
(* isSearching *)

\* C36: every searchBook call, the ones that return early included,
\* eventually leaves isSearching = false once it has returned: whenever
\* isSearching is true it is false later.
C36_SearchingEnds == isSearching ~> ~isSearching

----------------------------------------------------------------------------
(* currentSearchResultIndex *)

\* C37: currentSearchResultIndex is -1 exactly when searchResults is empty
\* and is an index of searchResults otherwise; goToSearchResult with an
\* index out of range changes nothing.
C37_IndexIsOfResults ==
    /\ [](IF searchResults = <<>>
          THEN currentSearchResultIndex = -1
          ELSE currentSearchResultIndex \in 0..(Len(searchResults) - 1))
    /\ [][(goToRejected' # goToRejected /\ Mounted') =>
            UNCHANGED <<searchResults, currentSearchResultIndex, isSearching, selectVars>>]_vars

\* The second of two results is the current one and was selected, and a
\* goToSearchResult with an index out of range was made.
C37_Witness ==
    /\ Len(searchResults) = 2
    /\ currentSearchResultIndex = 1
    /\ selectedCfi = searchResults[2].cfi
    /\ goToRejected

----------------------------------------------------------------------------
(* Overlays of the user and overlays of the search *)

\* The overlay is that of a highlight or a note that is in the store.
InStore(o) ==
    \/ \E k \in DOMAIN highlights : highlights[k].cfi = o[2] /\ highlights[k].type = o[1]
    \/ o[1] = "highlight" /\ \E k \in DOMAIN notes : notes[k].cfi = o[2]

\* C38: clearing the overlays of the previous search results and moving
\* the overlay of the selected position never remove the overlay of a
\* highlight or a note of the user that is still in the store.
C38_UserOverlaysSurviveSelection ==
    [][(Mounted' /\ (selectedCfi' # selectedCfi \/ searchOverlays' # searchOverlays)) =>
          \A o \in overlays : InStore(o) => o \in overlays']_vars

\* C39: the overlay of the selected result is independent of the overlays
\* of the results: every entry of searchResults has an overlay whatever
\* the history of the selections.
C39_EveryResultHasItsOverlay ==
    Mounted => \A k \in DOMAIN searchResults : searchResults[k].cfi \in DOMAIN searchOverlays

----------------------------------------------------------------------------
(* The copied count at the start of a session *)

\* C40: a protected session that starts on a document with no persisted
\* copied count has copiedChars 0, whatever an earlier session on another
\* document has left in copiedChars.
C40_FreshDocumentStartsAtZero ==
    [][(SessionStartLoad /\ isCopyProtected
          /\ ~Truthy(localStorage[STORAGE_KEY_COPIED_CHARS(url)])) =>
          copiedChars' = 0]_vars

====
